---- MODULE Spec2Model ----
(***************************************************************************)
(* Component Model marshaling core of wasm-component-model                 *)
(* (src/wasm-component-model/src/common/componentModel.ts).                *)
(*                                                                         *)
(* Linear memory is a function from byte addresses to bytes, a native      *)
(* string is a sequence of UTF-16 code units (as in the host language), a  *)
(* flat value stream is a sequence of numbers.  Operations that can throw  *)
(* return a record with an ok flag.                                        *)
(***************************************************************************)
EXTENDS Integers, Sequences, FiniteSets, TLC

VARIABLES
    mem,        \* Memory.raw / Memory.view: the guest's linear memory
    brk,        \* first byte the allocator behind Memory.alloc has not handed out
    options,    \* Options: [encoding, keepOption]
    stored,     \* the last store(): descriptor, pointer, value and header written
    loaded,     \* the last load(): header read and value returned
    desc,       \* the last record / tuple descriptor constructed
    call,       \* the last callWasm / callService: descriptor, arguments, outcome
    flagsObj,   \* a native flags value: the closure variable and the _bits property
    wire,       \* the last flags / enum / char value written or read on the wire
    disc        \* the last discriminant type chosen for a case count

vars == <<mem, brk, options, stored, loaded, desc, call, flagsObj, wire, disc>>

(***************************************************************************)
(* Bounds of the model.                                                    *)
(***************************************************************************)
MemBytes == 24      \* bytes of linear memory where values are stored and loaded
MaxLen == 2         \* longest string (code units) and list stored
MaxSlack == 1       \* bytes the allocator may skip before an allocation

Min(a, b) == IF a < b THEN a ELSE b
Max(a, b) == IF a > b THEN a ELSE b

\* F applied to the value of e: e is evaluated once, however often F uses its argument
Strict(F(_), e) == CHOOSE r \in {F(x) : x \in {e}} : TRUE

RECURSIVE Pow2(_)
Pow2(n) == IF n = 0 THEN 1 ELSE 2 * Pow2(n - 1)

(***************************************************************************)
(* align (line 48): Math.ceil(ptr / alignment) * alignment.                *)
(***************************************************************************)
align(ptr, alignment) == (((ptr + alignment) - 1) \div alignment) * alignment

(***************************************************************************)
(* Outcomes of operations that may throw.                                  *)
(***************************************************************************)
Ok(v) == [ok |-> TRUE, val |-> v, err |-> ""]
Err(e) == [ok |-> FALSE, val |-> 0, err |-> e]

(***************************************************************************)
(* DataView accessors.  A read or write outside the buffer throws a        *)
(* RangeError.  The littleEndian argument defaults to false (big-endian).  *)
(***************************************************************************)
\* memory.buffer.byteLength
byteLength(m) == Cardinality(DOMAIN m)
InBounds(m, p, n) == p >= 0 /\ p + n <= byteLength(m)

RECURSIVE getLE(_, _, _)
getLE(m, p, n) == IF n = 0 THEN 0 ELSE m[p] + (256 * getLE(m, p + 1, n - 1))

RECURSIVE getBE(_, _, _)
getBE(m, p, n) == IF n = 0 THEN 0 ELSE (getBE(m, p, n - 1) * 256) + m[p + n - 1]

\* the n bytes of the unsigned value v, least significant first
RECURSIVE bytesLE(_, _)
bytesLE(v, n) == IF n = 0 THEN << >> ELSE <<v % 256>> \o bytesLE(v \div 256, n - 1)

\* Uint8Array.set(data, p): copy a byte sequence into memory
setBytes(m, p, bs) ==
    [a \in DOMAIN m |-> IF a >= p /\ a < p + Len(bs) THEN bs[a - p + 1] ELSE m[a]]

\* view.setUintN(p, v, true) and view.setIntN(p, v, true): the value modulo 2^(8n), in
\* two's complement (bytesLE divides rounding down, so a negative v sign-extends)
setLE(m, p, n, v) == setBytes(m, p, bytesLE(v, n))

\* view.getIntN(p, true): the signed reading of n bytes
RECURSIVE getInvLE(_, _, _)
getInvLE(m, p, n) == IF n = 0 THEN 0 ELSE (255 - m[p]) + (256 * getInvLE(m, p + 1, n - 1))
getSignedLE(m, p, n) ==
    IF m[(p + n) - 1] >= 128 THEN (0 - 1) - getInvLE(m, p, n) ELSE getLE(m, p, n)

(***************************************************************************)
(* Memory.alloc(align, size) (line 37) is supplied by the embedder: it     *)
(* returns an aligned pointer to size fresh bytes.  The model is a bump    *)
(* allocator that may skip sl bytes first, so that every aligned pointer   *)
(* past the allocations made so far can come back.                         *)
(***************************************************************************)
alloc(st, al, size, sl) ==
    LET ptr == align(st.brk + sl, al)
    IN  [ptr |-> ptr,
         st |-> [st EXCEPT !.brk = ptr + size,
                           !.allocs = Append(@, [alignment |-> al, size |-> size])]]

\* a memory state threaded through a store: the bytes, the allocator, the error thrown
\* and the arguments of the calls of Memory.alloc made so far
MemState(m, b) == [mem |-> m, brk |-> b, err |-> "", allocs |-> << >>]
Throw(st, e) == [st EXCEPT !.err = e]

(***************************************************************************)
(* utf8Encoder / utf8Decoder (lines 30-31): the platform's UTF-8 codec     *)
(* over a string of UTF-16 code units.  A surrogate pair encodes as one    *)
(* four-byte sequence, a lone surrogate as U+FFFD; an ill-formed byte      *)
(* decodes to U+FFFD.                                                      *)
(***************************************************************************)
IsHighSurrogate(u) == u >= 55296 /\ u <= 56319
IsLowSurrogate(u) == u >= 56320 /\ u <= 57343
IsCont(b) == b >= 128 /\ b <= 191

RECURSIVE utf8Encode(_)
utf8Encode(s) ==
    IF s = << >> THEN << >>
    ELSE LET u == Head(s) IN
         IF u < 128 THEN <<u>> \o utf8Encode(Tail(s))
         ELSE IF u < 2048 THEN <<192 + (u \div 64), 128 + (u % 64)>> \o utf8Encode(Tail(s))
         ELSE IF IsHighSurrogate(u) /\ Len(s) >= 2 /\ IsLowSurrogate(s[2])
         THEN LET cp == 65536 + (u - 55296) * 1024 + (s[2] - 56320)
              IN  <<240 + (cp \div 262144), 128 + ((cp \div 4096) % 64),
                    128 + ((cp \div 64) % 64), 128 + (cp % 64)>> \o utf8Encode(Tail(Tail(s)))
         ELSE IF IsHighSurrogate(u) \/ IsLowSurrogate(u)
         THEN <<239, 191, 189>> \o utf8Encode(Tail(s))
         ELSE <<224 + (u \div 4096), 128 + ((u \div 64) % 64), 128 + (u % 64)>>
              \o utf8Encode(Tail(s))

RECURSIVE utf8Decode(_)
utf8Decode(bs) ==
    IF bs = << >> THEN << >>
    ELSE LET b == Head(bs)
             n == Len(bs)
         IN
         IF b < 128 THEN <<b>> \o utf8Decode(Tail(bs))
         ELSE IF b >= 194 /\ b <= 223 /\ n >= 2 /\ IsCont(bs[2])
         THEN <<(b - 192) * 64 + (bs[2] - 128)>> \o utf8Decode(SubSeq(bs, 3, n))
         ELSE IF b >= 224 /\ b <= 239 /\ n >= 3 /\ IsCont(bs[2]) /\ IsCont(bs[3])
                 /\ (b = 224 => bs[2] >= 160) /\ (b = 237 => bs[2] <= 159)
         THEN <<(b - 224) * 4096 + (bs[2] - 128) * 64 + (bs[3] - 128)>>
              \o utf8Decode(SubSeq(bs, 4, n))
         ELSE IF b >= 240 /\ b <= 244 /\ n >= 4 /\ IsCont(bs[2]) /\ IsCont(bs[3])
                 /\ IsCont(bs[4]) /\ (b = 240 => bs[2] >= 144) /\ (b = 244 => bs[2] <= 143)
         THEN LET cp == (b - 240) * 262144 + (bs[2] - 128) * 4096
                        + (bs[3] - 128) * 64 + (bs[4] - 128) - 65536
              IN  <<55296 + (cp \div 1024), 56320 + (cp % 1024)>> \o utf8Decode(SubSeq(bs, 5, n))
         ELSE <<65533>> \o utf8Decode(Tail(bs))

\* the bytes mem[p .. p+n-1]
readBytes(m, p, n) == [i \in 1..n |-> m[p + i - 1]]

(***************************************************************************)
(* Flat values.  A flat slot holds a number (i32, f32, f64) or a bigint    *)
(* (i64); typeof tells them apart.                                         *)
(***************************************************************************)
Num(v) == [big |-> FALSE, v |-> v]
Big(v) == [big |-> TRUE, v |-> v]

(***************************************************************************)
(* Type descriptors.  Every descriptor carries kind, size, alignment and   *)
(* flatTypes; composite descriptors add what their constructor computes.   *)
(***************************************************************************)
Prim(k, s, a, f) == [kind |-> k, size |-> s, alignment |-> a, flatTypes |-> <<f>>]
bool == Prim("bool", 1, 1, "i32")
u8 == Prim("u8", 1, 1, "i32")
u16 == Prim("u16", 2, 2, "i32")
u32 == Prim("u32", 4, 4, "i32")
u64 == Prim("u64", 8, 8, "i64")
s8 == Prim("s8", 1, 1, "i32")
s16 == Prim("s16", 2, 2, "i32")
s32 == Prim("s32", 4, 4, "i32")
s64 == Prim("s64", 8, 8, "i64")
wchar == Prim("char", 4, 4, "i32")
wstring == [kind |-> "string", size |-> 8, alignment |-> 4, flatTypes |-> <<"i32", "i32">>]

\* new ListType(elementType) (lines 791-797)
ListType(elementType) ==
    [kind |-> "list", size |-> 8, alignment |-> 4, flatTypes |-> <<"i32", "i32">>,
     elementType |-> elementType, typedArray |-> FALSE]

\* TypeArrayType (lines 863-868) and its subclasses: elementType is the primitive
\* whose width the array view has, allocAlignment the alignment storeIntoRange asks for
TypeArrayType(elementType, allocAlignment) ==
    [kind |-> "list", size |-> 8, alignment |-> 4, flatTypes |-> <<"i32", "i32">>,
     elementType |-> elementType, typedArray |-> TRUE, allocAlignment |-> allocAlignment]
Int8ArrayType == TypeArrayType(s8, s8.alignment)
Int16ArrayType == TypeArrayType(s16, s16.alignment)
Uint8ArrayType == TypeArrayType(u8, u8.alignment)
Uint16ArrayType == TypeArrayType(u16, u16.alignment)
Int32ArrayType == TypeArrayType(s32, s32.alignment)
Uint32ArrayType == TypeArrayType(u32, u32.alignment)
BigInt64ArrayType == TypeArrayType(s64, s64.alignment)
BigUint64ArrayType == TypeArrayType(u64, u64.alignment)

(***************************************************************************)
(* Records and tuples.  The constructors (lines 1136-1145, 1178-1187)      *)
(* assign the offsets; BaseRecordType.size, alignment and flatTypes (lines *)
(* 1097-1120) derive the attributes from the fields.                       *)
(***************************************************************************)
\* the constructor's loop: offset = align(offset, type.alignment); push; offset += type.size
RECURSIVE layoutFields(_, _, _)
layoutFields(types, i, offset) ==
    IF i > Len(types) THEN << >>
    ELSE Strict(LAMBDA at : <<[type |-> types[i], offset |-> at]>>
                                \o layoutFields(types, i + 1, at + types[i].size),
                align(offset, types[i].alignment))

\* BaseRecordType.size: the call align(result, field.type.alignment) has its value
\* dropped, so result only accumulates the field sizes
RECURSIVE BaseRecordType_size(_, _, _)
BaseRecordType_size(fields, i, result) ==
    IF i > Len(fields) THEN result
    ELSE BaseRecordType_size(fields, i + 1, result + fields[i].type.size)

RECURSIVE BaseRecordType_alignment(_, _, _)
BaseRecordType_alignment(fields, i, result) ==
    IF i > Len(fields) THEN result
    ELSE BaseRecordType_alignment(fields, i + 1, Max(result, fields[i].type.alignment))

RECURSIVE BaseRecordType_flatTypes(_, _)
BaseRecordType_flatTypes(fields, i) ==
    IF i > Len(fields) THEN << >>
    ELSE fields[i].type.flatTypes \o BaseRecordType_flatTypes(fields, i + 1)

\* the BaseRecordType constructor (lines 1045-1052)
BaseRecordType(fields, kind) ==
    [kind |-> kind,
     size |-> BaseRecordType_size(fields, 1, 0),
     alignment |-> BaseRecordType_alignment(fields, 1, 1),
     flatTypes |-> BaseRecordType_flatTypes(fields, 1),
     fields |-> fields]

TupleType(types) ==
    Strict(LAMBDA fields : BaseRecordType(fields, "tuple"), layoutFields(types, 1, 0))
\* record fields carry names; a native record is modelled by its values in declared order
RecordType(types) ==
    Strict(LAMBDA fields : BaseRecordType(fields, "record"), layoutFields(types, 1, 0))

IsInt(k) == k \in {"u8", "u16", "u32", "u64", "s8", "s16", "s32", "s64"}
IsSigned(k) == k \in {"s8", "s16", "s32", "s64"}

(***************************************************************************)
(* $wchar.fromCodePoint (lines 677-682) and $wchar.asCodePoint (lines      *)
(* 684-693).  String.fromCodePoint yields one code unit up to 0xFFFF and a *)
(* surrogate pair above; str.length counts code units; codePointAt(0)      *)
(* joins a leading surrogate pair.                                         *)
(***************************************************************************)
StringFromCodePoint(code) ==
    IF code < 65536 THEN <<code>>
    ELSE <<55296 + ((code - 65536) \div 1024), 56320 + ((code - 65536) % 1024)>>

codePointAt0(str) ==
    IF Len(str) >= 2 /\ IsHighSurrogate(str[1]) /\ IsLowSurrogate(str[2])
    THEN 65536 + ((str[1] - 55296) * 1024) + (str[2] - 56320)
    ELSE str[1]

fromCodePoint(code) ==
    IF code >= 1114112 \/ (55296 <= code /\ code <= 57343)
    THEN Err("Invalid code point")
    ELSE Ok(StringFromCodePoint(code))

asCodePoint(str) ==
    IF Len(str) # 1 THEN Err("String length must be 1")
    ELSE LET code == codePointAt0(str) IN
         IF ~(code <= 55295 \/ (55296 <= code /\ code <= 1114111))
         THEN Err("Invalid code point")
         ELSE Ok(code)

(***************************************************************************)
(* store.  putLE is a DataView write of n bytes, little-endian.            *)
(***************************************************************************)
putLE(st, p, n, v) ==
    IF InBounds(st.mem, p, n) THEN [st EXCEPT !.mem = setLE(@, p, n, v)] ELSE Throw(st, "RangeError")

\* $wstring.storeIntoRange (lines 752-772)
wstring_storeIntoRange(st, str, opts, sl) ==
    IF opts.encoding = "latin1+utf-16"
    THEN [ptr |-> 0, n |-> 0, st |-> Throw(st, "latin1+utf-16 encoding not yet supported")]
    ELSE IF opts.encoding = "utf-8"
    THEN Strict(LAMBDA data :
           Strict(LAMBDA a :
             [ptr |-> a.ptr, n |-> Len(data),
              st |-> IF InBounds(st.mem, a.ptr, Len(data))
                     THEN [a.st EXCEPT !.mem = setBytes(@, a.ptr, data)]
                     ELSE Throw(a.st, "RangeError")],
             alloc(st, u8.alignment, Len(data), sl)),
           utf8Encode(str))
    ELSE IF opts.encoding = "utf-16"
    THEN Strict(LAMBDA a :
           [ptr |-> a.ptr, n |-> Len(str),
            \* new Uint16Array(buffer, dataPtr, length) wants an even offset
            st |-> IF a.ptr % 2 # 0 \/ ~InBounds(st.mem, a.ptr, Len(str) * 2)
                   THEN Throw(a.st, "RangeError")
                   ELSE [a.st EXCEPT !.mem = setBytes(@, a.ptr,
                            [i \in 1..(2 * Len(str)) |->
                                IF i % 2 = 1 THEN str[(i + 1) \div 2] % 256
                                ELSE str[i \div 2] \div 256])]],
           alloc(st, u8.alignment, Len(str) * 2, sl))
    ELSE [ptr |-> 0, n |-> 0, st |-> Throw(st, "Unsupported encoding")]

RECURSIVE store(_, _, _, _, _, _)
RECURSIVE storeElements(_, _, _, _, _, _)
RECURSIVE storeFields(_, _, _, _, _, _, _)

\* ListType.storeIntoRange (lines 839-848)
ListType_storeIntoRange(st, t, values, opts, sl) ==
    Strict(LAMBDA a :
             [ptr |-> a.ptr, n |-> Len(values),
              st |-> storeElements(a.st, a.ptr, t.elementType, values, opts, sl)],
           alloc(st, t.elementType.alignment, t.elementType.size * Len(values), sl))

\* XArrayType.storeIntoRange (lines 909-914 and alike): alloc, a typed view, view.set
TypeArrayType_storeIntoRange(st, t, value, sl) ==
    LET w == t.elementType.size IN
    Strict(LAMBDA a :
             [ptr |-> a.ptr, n |-> Len(value),
              st |-> IF a.ptr % w # 0 \/ ~InBounds(st.mem, a.ptr, w * Len(value))
                     THEN Throw(a.st, "RangeError")
                     ELSE [a.st EXCEPT !.mem = setBytes(@, a.ptr,
                              [i \in 1..(w * Len(value)) |->
                                  bytesLE(value[((i - 1) \div w) + 1], w)[((i - 1) % w) + 1]])]],
           alloc(st, t.allocAlignment, w * Len(value), sl))

storeIntoRange(st, t, v, opts, sl) ==
    IF t.kind = "string" THEN wstring_storeIntoRange(st, v, opts, sl)
    ELSE IF t.typedArray THEN TypeArrayType_storeIntoRange(st, t, v, sl)
    ELSE ListType_storeIntoRange(st, t, v, opts, sl)

\* the loop of ListType.storeIntoRange
storeElements(st, ptr, t, values, opts, sl) ==
    IF values = << >> \/ st.err # "" THEN st
    ELSE Strict(LAMBDA s1 : storeElements(s1, ptr + t.size, t, Tail(values), opts, sl),
                store(st, ptr, t, Head(values), opts, sl))

\* BaseRecordType.store (lines 1076-1083)
storeFields(st, ptr, fields, values, i, opts, sl) ==
    IF i > Len(fields) \/ st.err # "" THEN st
    ELSE Strict(LAMBDA s1 : storeFields(s1, ptr, fields, values, i + 1, opts, sl),
                store(st, ptr + fields[i].offset, fields[i].type, values[i], opts, sl))

\* the store method of each descriptor
store(st, p, t, v, opts, sl) ==
    IF st.err # "" THEN st
    ELSE IF t.kind = "bool" THEN putLE(st, p, 1, IF v THEN 1 ELSE 0)
    ELSE IF IsInt(t.kind) THEN putLE(st, p, t.size, v)
    ELSE IF t.kind = "char"
    THEN Strict(LAMBDA c : IF c.ok THEN putLE(st, p, 4, c.val) ELSE Throw(st, c.err),
                asCodePoint(v))
    ELSE IF t.kind \in {"string", "list"}
    THEN \* $wstring.store (726-731), ListType.store (817-823), TypeArrayType.store (888-894)
         Strict(LAMBDA r : IF r.st.err # "" THEN r.st
                           ELSE putLE(putLE(r.st, p, 4, r.ptr), p + 4, 4, r.n),
                storeIntoRange(st, t, v, opts, sl))
    ELSE IF t.kind \in {"record", "tuple"} THEN storeFields(st, p, t.fields, v, 1, opts, sl)
    ELSE Throw(st, "unmodelled kind")

(***************************************************************************)
(* load.  The header reads of $wstring.load (711-712), ListType.load       *)
(* (802-803) and TypeArrayType.load (873-874) call view.getUint32 without  *)
(* the littleEndian argument.                                              *)
(***************************************************************************)
\* $wstring.loadFromRange (lines 737-750)
wstring_loadFromRange(m, data, codeUnits, opts) ==
    IF opts.encoding = "latin1+utf-16" THEN Err("latin1+utf-16 encoding not yet supported")
    ELSE IF opts.encoding = "utf-8"
    THEN \* new Uint8Array(memory.buffer, data, byteLength)
         IF data > byteLength(m) \/ codeUnits > byteLength(m) - data THEN Err("RangeError")
         ELSE Ok(utf8Decode(readBytes(m, data, codeUnits)))
    ELSE IF opts.encoding = "utf-16"
    THEN \* new Uint16Array(memory.buffer, data, codeUnits)
         IF data % 2 # 0 \/ data > byteLength(m) \/ codeUnits > (byteLength(m) - data) \div 2
         THEN Err("RangeError")
         ELSE Ok([i \in 1..codeUnits |->
                     m[(data + (2 * i)) - 2] + (256 * m[(data + (2 * i)) - 1])])
    ELSE Err("Unsupported encoding")

RECURSIVE load(_, _, _, _)
RECURSIVE loadElements(_, _, _, _, _, _, _)
RECURSIVE loadFields(_, _, _, _, _, _)

\* ListType.loadFromRange (lines 829-837)
loadElements(m, data, t, length, i, opts, result) ==
    IF i >= length THEN Ok(result)
    ELSE Strict(LAMBDA e : IF e.ok
                           THEN loadElements(m, data, t, length, i + 1, opts,
                                             Append(result, e.val))
                           ELSE e,
                load(m, data + (i * t.size), t, opts))

\* XArrayType.loadFromRange (lines 906-908 and alike): new XArray(memory.buffer, data, length)
TypeArrayType_loadFromRange(m, t, data, length) ==
    LET w == t.elementType.size IN
    IF data % w # 0 \/ data > byteLength(m) \/ length > (byteLength(m) - data) \div w
    THEN Err("RangeError")
    ELSE Ok([i \in 1..length |->
                IF IsSigned(t.elementType.kind)
                THEN getSignedLE(m, data + ((i - 1) * w), w)
                ELSE getLE(m, data + ((i - 1) * w), w)])

loadFromRange(m, t, data, length, opts) ==
    IF t.kind = "string" THEN wstring_loadFromRange(m, data, length, opts)
    ELSE IF t.typedArray THEN TypeArrayType_loadFromRange(m, t, data, length)
    ELSE loadElements(m, data, t.elementType, length, 0, opts, << >>)

\* the (data, length) header as load reads it
loadHeader(m, p) == <<getBE(m, p, 4), getBE(m, p + 4, 4)>>

\* BaseRecordType.load (lines 1054-1061)
loadFields(m, ptr, fields, i, opts, result) ==
    IF i > Len(fields) THEN Ok(result)
    ELSE Strict(LAMBDA f : IF f.ok
                           THEN loadFields(m, ptr, fields, i + 1, opts, Append(result, f.val))
                           ELSE f,
                load(m, ptr + fields[i].offset, fields[i].type, opts))

\* the load method of each descriptor
load(m, p, t, opts) ==
    IF t.kind = "bool"
    THEN IF InBounds(m, p, 1) THEN Ok(m[p] # 0) ELSE Err("RangeError")
    ELSE IF IsInt(t.kind)
    THEN IF ~InBounds(m, p, t.size) THEN Err("RangeError")
         ELSE IF IsSigned(t.kind) THEN Ok(getSignedLE(m, p, t.size))
         ELSE Ok(getLE(m, p, t.size))
    ELSE IF t.kind = "char"
    THEN IF InBounds(m, p, 4) THEN fromCodePoint(getLE(m, p, 4)) ELSE Err("RangeError")
    ELSE IF t.kind \in {"string", "list"}
    THEN IF ~InBounds(m, p, 8) THEN Err("RangeError")
         ELSE Strict(LAMBDA h : loadFromRange(m, t, h[1], h[2], opts), loadHeader(m, p))
    ELSE IF t.kind \in {"record", "tuple"} THEN loadFields(m, p, t.fields, 1, opts, << >>)
    ELSE Err("unmodelled kind")

(***************************************************************************)
(* liftFlat.  A flat stream is the sequence of values not yet consumed;    *)
(* next() on an exhausted iterator yields undefined.  Numbers of the model *)
(* stay below 2^31, so the upper limit of a 32-bit or 64-bit type is never *)
(* exceeded.                                                               *)
(***************************************************************************)
Undefined == [undefined |-> TRUE]
IsUndefined(x) == "undefined" \in DOMAIN x

next(values) == IF values = << >> THEN Undefined ELSE Head(values)
advance(values) == IF values = << >> THEN << >> ELSE Tail(values)

Lifted(v, rest) == [ok |-> TRUE, val |-> v, err |-> "", rest |-> rest]
LiftError(e, rest) == [ok |-> FALSE, val |-> 0, err |-> e, rest |-> rest]

\* value > HIGH_VALUE of the unsigned type with the given byte size
AboveHigh(v, size) == size <= 2 /\ v > Pow2(8 * size) - 1
\* the signed range check of lowerFlat: value < LOW_VALUE || value > HIGH_VALUE
OutsideSigned(v, size) ==
    size <= 2 /\ (v < 0 - Pow2((8 * size) - 1) \/ v > Pow2((8 * size) - 1) - 1)

\* $u8/$u16/$u32.liftFlat (224-230, 263-269, 302-308), $s8/$s16/$s32.liftFlat (380-394,
\* 427-433, 466-472), $u64.liftFlat (341-347), $s64.liftFlat (505-511)
liftInt(t, x, rest) ==
    IF t.size = 8
    THEN IF IsUndefined(x) THEN Lifted(Undefined, rest)
         ELSE IF x.v < 0 THEN LiftError("Invalid value", rest)
         ELSE Lifted(x.v, rest)
    ELSE IF IsUndefined(x) \/ x.big \/ x.v < 0 \/ AboveHigh(x.v, t.size)
    THEN LiftError("Invalid value", rest)
    ELSE IF IsSigned(t.kind) /\ t.size <= 2 /\ x.v > Pow2((8 * t.size) - 1) - 1
    THEN Lifted(x.v - Pow2(8 * t.size), rest)
    ELSE Lifted(x.v, rest)

RECURSIVE liftFlat(_, _, _, _)
RECURSIVE liftFields(_, _, _, _, _, _)

\* BaseRecordType.liftFlat (lines 1064-1070)
liftFields(m, fields, i, values, opts, result) ==
    IF i > Len(fields) THEN Lifted(result, values)
    ELSE Strict(LAMBDA f : IF f.ok
                           THEN liftFields(m, fields, i + 1, f.rest, opts,
                                           Append(result, f.val))
                           ELSE f,
                liftFlat(m, fields[i].type, values, opts))

\* the liftFlat method of each descriptor
liftFlat(m, t, values, opts) ==
    LET x == next(values)
        rest == advance(values)
    IN
    IF t.kind = "bool"
    THEN \* lines 192-198: value < 0 throws; value !== 0 (a bigint is never === 0)
         IF IsUndefined(x) THEN Lifted(TRUE, rest)
         ELSE IF x.v < 0 THEN LiftError("Invalid bool value", rest)
         ELSE Lifted(x.big \/ x.v # 0, rest)
    ELSE IF IsInt(t.kind) THEN liftInt(t, x, rest)
    ELSE IF t.kind = "char"
    THEN Strict(LAMBDA c :
           IF ~c.ok THEN c
           ELSE Strict(LAMBDA s : IF s.ok THEN Lifted(s.val, rest) ELSE LiftError(s.err, rest),
                       fromCodePoint(c.val)),
           liftInt(u32, x, rest))
    ELSE IF t.kind \in {"string", "list"}
    THEN \* $wstring.liftFlat (716-720), ListType.liftFlat (807-811)
         LET y == next(rest)
             rest2 == advance(rest)
         IN  IF IsUndefined(x) \/ IsUndefined(y) THEN LiftError("RangeError", rest2)
             ELSE Strict(LAMBDA r : IF r.ok THEN Lifted(r.val, rest2)
                                    ELSE LiftError(r.err, rest2),
                         loadFromRange(m, t, x.v, y.v, opts))
    ELSE IF t.kind \in {"record", "tuple"} THEN liftFields(m, t.fields, 1, values, opts, << >>)
    ELSE LiftError("unmodelled kind", values)

(***************************************************************************)
(* lowerFlat.  A lowering threads the sink (result) and the memory state.  *)
(***************************************************************************)
Lowering(out, st) == [out |-> out, st |-> st]
push(ls, f) == [ls EXCEPT !.out = Append(@, f)]
fail(ls, e) == [ls EXCEPT !.st = Throw(@, e)]

\* $u8.lowerFlat (240-245) and alike, $s8.lowerFlat (404-409) and alike,
\* $u64.lowerFlat (357-362), $s64.lowerFlat (521-526)
lowerInt(ls, t, v) ==
    IF t.kind = "u64"
    THEN IF v < 0 THEN fail(ls, "Invalid u64 value") ELSE push(ls, Big(v))
    ELSE IF t.kind = "s64"
    THEN push(ls, Big(IF v < 0 THEN v + Pow2(64) ELSE v))
    ELSE IF IsSigned(t.kind)
    THEN IF OutsideSigned(v, t.size) THEN fail(ls, "Invalid value")
         ELSE push(ls, Num(IF v < 0 THEN v + Pow2(8 * t.size) ELSE v))
    ELSE IF v < 0 \/ AboveHigh(v, t.size) THEN fail(ls, "Invalid value")
         ELSE push(ls, Num(v))

RECURSIVE lowerFlat(_, _, _, _, _)
RECURSIVE lowerFields(_, _, _, _, _, _)

\* BaseRecordType.lowerFlat (lines 1085-1092)
lowerFields(ls, fields, values, i, opts, sl) ==
    IF i > Len(fields) \/ ls.st.err # "" THEN ls
    ELSE Strict(LAMBDA l1 : lowerFields(l1, fields, values, i + 1, opts, sl),
                lowerFlat(ls, fields[i].type, values[i], opts, sl))

\* the lowerFlat method of each descriptor
lowerFlat(ls, t, v, opts, sl) ==
    IF ls.st.err # "" THEN ls
    ELSE IF t.kind = "bool" THEN push(ls, Num(IF v THEN 1 ELSE 0))
    ELSE IF IsInt(t.kind) THEN lowerInt(ls, t, v)
    ELSE IF t.kind = "char"
    THEN Strict(LAMBDA c : IF c.ok THEN lowerInt(ls, u32, c.val) ELSE fail(ls, c.err),
                asCodePoint(v))
    ELSE IF t.kind \in {"string", "list"}
    THEN \* $wstring.lowerFlat (733-735), ListType.lowerFlat (825-827)
         Strict(LAMBDA r : IF r.st.err # "" THEN Lowering(ls.out, r.st)
                           ELSE Lowering(ls.out \o <<Num(r.ptr), Num(r.n)>>, r.st),
                storeIntoRange(ls.st, t, v, opts, sl))
    ELSE IF t.kind \in {"record", "tuple"} THEN lowerFields(ls, t.fields, v, 1, opts, sl)
    ELSE fail(ls, "unmodelled kind")

(***************************************************************************)
(* Store and load of the pointer+length descriptors.                       *)
(***************************************************************************)
Idle == [done |-> FALSE]

RECURSIVE SeqsUpTo(_, _)
SeqsUpTo(S, n) ==
    IF n = 0 THEN {<< >>}
    ELSE SeqsUpTo(S, n - 1) \cup {Append(q, x) : q \in SeqsUpTo(S, n - 1), x \in S}

\* 'h', e-acute and the euro sign: one, two and three bytes in UTF-8
StringUnits == {104, 233, 8364}
PtrLenTypes == {wstring, ListType(u8), ListType(u16), Uint8ArrayType, Int8ArrayType,
                Uint16ArrayType}
ValuesOf(t) ==
    IF t.kind = "string" THEN SeqsUpTo(StringUnits, MaxLen)
    ELSE IF t.elementType.kind = "s8" THEN SeqsUpTo({0 - 1, 3}, MaxLen)
    ELSE SeqsUpTo({1, 255}, MaxLen)

InitMem ==
    /\ mem = [a \in 0..(MemBytes - 1) |-> 0]
    /\ brk = 0
    /\ options \in [encoding : {"utf-8", "utf-16"}, keepOption : {FALSE}]
    /\ stored = Idle
    /\ loaded = Idle
    /\ desc = Idle
    /\ call = Idle
    /\ flagsObj = Idle
    /\ wire = Idle
    /\ disc = Idle

\* ptr = T.alloc(memory); T.store(memory, ptr, v, options)
Store(t, v, sl) ==
    \E a \in {alloc(MemState(mem, brk), t.alignment, t.size, sl)} :
      \E st \in {store(a.st, a.ptr, t, v, options, sl)} :
        \E r \in {storeIntoRange(a.st, t, v, options, sl)} :
          /\ st.brk <= byteLength(mem)
          /\ mem' = st.mem
          /\ brk' = st.brk
          /\ stored' = [done |-> TRUE, type |-> t, ptr |-> a.ptr, value |-> v,
                        err |-> st.err, header |-> <<r.ptr, r.n>>]
          /\ loaded' = Idle
          /\ UNCHANGED <<options, desc, call, flagsObj, wire, disc>>

\* T.load(memory, ptr, options) at the pointer of the last store
Load ==
    /\ stored.done
    /\ stored.err = ""
    /\ ~loaded.done
    /\ loaded' = [done |-> TRUE, header |-> loadHeader(mem, stored.ptr),
                  res |-> load(mem, stored.ptr, stored.type, options)]
    /\ UNCHANGED <<mem, brk, options, stored, desc, call, flagsObj, wire, disc>>

NextMem ==
    \/ \E t \in PtrLenTypes : \E v \in ValuesOf(t) : \E sl \in 0..MaxSlack : Store(t, v, sl)
    \/ Load

SpecMem == InitMem /\ [][NextMem]_vars

\* C1: after store(mem, p, v) of a string (utf-8), a list or a typed buffer, load(mem, p)
\* reads the (data_ptr, length) header that store wrote and returns a value equal to v.
C1_StoreLoadRoundTrip ==
    (loaded.done /\ (stored.type.kind = "string" => options.encoding = "utf-8"))
        => /\ loaded.header = stored.header
           /\ loaded.res.ok
           /\ loaded.res.val = stored.value

(***************************************************************************)
(* Construction of record and tuple descriptors.                           *)
(***************************************************************************)
MaxFields == 3      \* most fields of a record or tuple constructed

FieldTypes == {u8, u16, u32, u64, wstring, TupleType(<<u8, u16>>)}

InitLayout ==
    /\ mem = << >>
    /\ brk = 0
    /\ options = [encoding |-> "utf-8", keepOption |-> FALSE]
    /\ stored = Idle
    /\ loaded = Idle
    /\ desc = Idle
    /\ call = Idle
    /\ flagsObj = Idle
    /\ wire = Idle
    /\ disc = Idle

NewTuple(types) ==
    /\ ~desc.done
    /\ desc' = [done |-> TRUE, types |-> types, type |-> TupleType(types)]
    /\ UNCHANGED <<mem, brk, options, stored, loaded, call, flagsObj, wire, disc>>

NewRecord(types) ==
    /\ ~desc.done
    /\ desc' = [done |-> TRUE, types |-> types, type |-> RecordType(types)]
    /\ UNCHANGED <<mem, brk, options, stored, loaded, call, flagsObj, wire, disc>>

NextLayout ==
    \/ \E types \in SeqsUpTo(FieldTypes, MaxFields) : NewTuple(types)
    \/ \E types \in SeqsUpTo(FieldTypes, MaxFields) : NewRecord(types)

SpecLayout == InitLayout /\ [][NextLayout]_vars

\* the offset at which the layout walk ends: the last field's offset plus its size
FinalOffset(fields) ==
    IF fields = << >> THEN 0
    ELSE fields[Len(fields)].offset + fields[Len(fields)].type.size

\* C2: the size of every record and tuple descriptor is the final offset of the layout
\* walk (each field's offset rounded up to its alignment, then advanced by its size).
C2_SizeIsFinalOffset ==
    desc.done => desc.type.size = FinalOffset(desc.type.fields)

(***************************************************************************)
(* Function descriptors (AbstractResourceCallable, FunctionType).          *)
(***************************************************************************)
MAX_FLAT_PARAMS == 16
MAX_FLAT_RESULTS == 1

\* returnType === undefined
NoType == [kind |-> "undefined"]

\* the AbstractResourceCallable constructor (lines 1913-1930)
FunctionType(params, returnType) ==
    [params |-> params,
     returnType |-> returnType,
     paramFlatTypes |-> Len(BaseRecordType_flatTypes(layoutFields(params, 1, 0), 1)),
     paramTupleType |-> TupleType(params),
     returnFlatTypes |-> IF returnType # NoType THEN Len(returnType.flatTypes) ELSE 0]

\* liftParamValues (lines 1932-1942); wasmValues[0] of an empty array is undefined
liftParamValues(f, wasmValues, m, opts) ==
    IF f.paramFlatTypes > MAX_FLAT_PARAMS
    THEN LET p0 == next(wasmValues) IN
         IF IsUndefined(p0) \/ p0.big THEN Err("Invalid pointer")
         ELSE load(m, p0.v, f.paramTupleType, opts)
    ELSE Strict(LAMBDA r : IF r.ok THEN Ok(r.val) ELSE Err(r.err),
                liftFlat(m, f.paramTupleType, wasmValues, opts))

\* liftReturnValue (lines 1944-1954)
liftReturnValue(f, value, m, opts) ==
    IF f.returnFlatTypes = 0 THEN Ok(Undefined)
    ELSE IF f.returnFlatTypes <= MAX_FLAT_RESULTS
    THEN Strict(LAMBDA r : IF r.ok THEN Ok(r.val) ELSE Err(r.err),
                liftFlat(m, f.returnType, <<value>>, opts))
    ELSE IF IsUndefined(value) THEN Err("RangeError")
    ELSE load(m, value.v, f.returnType, opts)

\* lowerParamValues with the limit itself taken as too many
lowerParamValues_atLimit(f, values, st, opts, sl) ==
    IF f.paramFlatTypes >= MAX_FLAT_PARAMS
    THEN Strict(LAMBDA a : Lowering(<<Num(a.ptr)>>,
                                    store(a.st, a.ptr, f.paramTupleType, values, opts, sl)),
                alloc(st, f.paramTupleType.alignment, f.paramTupleType.size, sl))
    ELSE lowerFlat(Lowering(<< >>, st), f.paramTupleType, values, opts, sl)
\* lowerParamValues (lines 1956-1966), called with out === undefined
lowerParamValues(f, values, st, opts, sl) ==
    IF f.paramFlatTypes > MAX_FLAT_PARAMS
    THEN Strict(LAMBDA a : Lowering(<<Num(a.ptr)>>,
                                    store(a.st, a.ptr, f.paramTupleType, values, opts, sl)),
                alloc(st, f.paramTupleType.alignment, f.paramTupleType.size, sl))
    ELSE lowerFlat(Lowering(<< >>, st), f.paramTupleType, values, opts, sl)

\* lowerReturnValue (lines 1968-1984), called with a number as out
lowerReturnValue(f, value, st, opts, out, sl) ==
    IF f.returnFlatTypes = 0 THEN [ret |-> Undefined, st |-> st]
    ELSE IF f.returnFlatTypes <= MAX_FLAT_RESULTS
    THEN Strict(LAMBDA ls :
           IF ls.st.err # "" THEN [ret |-> Undefined, st |-> ls.st]
           ELSE IF Len(ls.out) # 1
           THEN [ret |-> Undefined, st |-> Throw(ls.st, "Invalid result")]
           ELSE [ret |-> ls.out[1], st |-> ls.st],
           lowerFlat(Lowering(<< >>, st), f.returnType, value, opts, sl))
    ELSE [ret |-> Undefined, st |-> store(st, out, f.returnType, value, opts, sl)]

\* FunctionType.callService (lines 2000-2012).  nativeResult is what the service
\* function returns when it is invoked.
callService(f, params, nativeResult, st, opts, sl) ==
    LET out == IF params = << >> THEN Undefined ELSE params[Len(params)] IN
    IF f.returnFlatTypes > MAX_FLAT_RESULTS /\ Len(params) # f.paramFlatTypes + 1
    THEN [invoked |-> FALSE, jParams |-> << >>, ret |-> Undefined, usedOut |-> FALSE,
          st |-> Throw(st, "Invalid number of parameters")]
    ELSE Strict(LAMBDA jParams :
           IF ~jParams.ok
           THEN [invoked |-> FALSE, jParams |-> << >>, ret |-> Undefined,
                 usedOut |-> FALSE, st |-> Throw(st, jParams.err)]
           ELSE IF IsUndefined(out) \/ out.big
           THEN \* typeof out !== 'number'
                [invoked |-> TRUE, jParams |-> jParams.val, ret |-> Undefined,
                 usedOut |-> FALSE,
                 st |-> Throw(st, "Result pointer must be a number (u32)")]
           ELSE Strict(LAMBDA r :
                  [invoked |-> TRUE, jParams |-> jParams.val, ret |-> r.ret,
                   usedOut |-> f.returnFlatTypes > MAX_FLAT_RESULTS, st |-> r.st],
                  lowerReturnValue(f, nativeResult, st, opts, out.v, sl)),
           liftParamValues(f, params, st.mem, opts))

\* the first half of FunctionType.callWasm (lines 2015-2021): the flat values the
\* wasm function is called with
wasmArguments(f, params, st, opts, sl) ==
    Strict(LAMBDA ls :
             IF ls.st.err = "" /\ f.returnFlatTypes > MAX_FLAT_RESULTS
             THEN Strict(LAMBDA a : [out |-> Append(ls.out, Num(a.ptr)), st |-> a.st,
                                     resultPtr |-> Num(a.ptr)],
                         alloc(ls.st, f.returnType.alignment, f.returnType.size, sl))
             ELSE [out |-> ls.out, st |-> ls.st, resultPtr |-> Undefined],
           lowerParamValues(f, params, st, opts, sl))

\* the second half of FunctionType.callWasm (lines 2022-2030): result is what the wasm
\* function returned, m the memory it left
wasmResult(f, result, resultPtr, m, opts) ==
    IF f.returnFlatTypes = 0 THEN Ok(Undefined)
    ELSE IF f.returnFlatTypes = 1 THEN Ok(result)
    ELSE liftReturnValue(f, resultPtr, m, opts)

(***************************************************************************)
(* Calls across the boundary.  CallWasm is a whole callWasm, the guest     *)
(* function being the environment: it returns any flat value and, for an   *)
(* indirect return, stores a value of the return type at the pointer it    *)
(* was given.  PrepareCall is a guest lowering the arguments of an         *)
(* imported function the way callWasm does, and CallService the host       *)
(* function then called with those flat values.                            *)
(***************************************************************************)
CallMemBytes == 32      \* bytes of linear memory where calls are made

ManyU8 == [i \in 1..(MAX_FLAT_PARAMS + 1) |-> u8]
ParamLists == {<< >>, <<u8>>, <<s8, u64>>, ManyU8}
ReturnTypes == {NoType, s8, bool, u8, u64, TupleType(<<u8, u8>>)}
FunctionTypes == {FunctionType(ps, r) : ps \in ParamLists, r \in ReturnTypes}

ArgumentsOf(ps) ==
    IF ps = << >> THEN {<< >>}
    ELSE IF ps = <<u8>> THEN {<<0>>, <<255>>}
    ELSE IF ps = <<s8, u64>> THEN {<<0 - 1, 7>>}
    ELSE {[i \in 1..Len(ps) |-> i], [i \in 1..Len(ps) |-> 255]}

NativeValues(t) ==
    IF t = NoType THEN {Undefined}
    ELSE IF t.kind = "s8" THEN {0 - 1, 5}
    ELSE IF t.kind = "bool" THEN {TRUE, FALSE}
    ELSE IF IsInt(t.kind) THEN {0, 255}
    ELSE {<<1, 2>>, <<255, 0>>}

\* what a guest function of type f may return on the flat stack: nothing unless it has
\* one flat result, then an i32 as a number or an i64 as a bigint
GuestReturns(f) ==
    IF f.returnFlatTypes # 1 THEN {Undefined}
    ELSE IF f.returnType.flatTypes[1] = "i64" THEN {Big(0), Big(1)}
    ELSE {Num(0), Num(1), Num(255), Num(256)}

InitCall ==
    /\ mem = [a \in 0..(CallMemBytes - 1) |-> 0]
    /\ brk = 0
    /\ options = [encoding |-> "utf-8", keepOption |-> FALSE]
    /\ stored = Idle
    /\ loaded = Idle
    /\ desc = Idle
    /\ call = Idle
    /\ flagsObj = Idle
    /\ wire = Idle
    /\ disc = Idle

\* func.callWasm(params, wasmFunction, memory, options)
CallWasm(f, params, result, written, sl) ==
    /\ ~call.done
    /\ ~stored.done
    /\ \E w \in {wasmArguments(f, params, MemState(mem, brk), options, sl)} :
         \* the wasm function runs: an indirect return is written at the result pointer
         \E after \in {IF IsUndefined(w.resultPtr) THEN w.st
                        ELSE store(w.st, w.resultPtr.v, f.returnType, written, options, sl)} :
           /\ after.brk <= byteLength(mem)
           /\ mem' = after.mem
           /\ brk' = after.brk
           /\ call' = [done |-> TRUE, op |-> "callWasm", func |-> f, params |-> params,
                       wasmValues |-> w.out, invoked |-> w.st.err = "",
                       result |-> result, resultPtr |-> w.resultPtr,
                       ret |-> IF w.st.err # "" THEN Err(w.st.err)
                               ELSE wasmResult(f, result, w.resultPtr, after.mem, options)]
    /\ UNCHANGED <<options, stored, loaded, desc, flagsObj, wire, disc>>

\* a guest about to call an import: it lowers the arguments as callWasm would
PrepareCall(f, params, sl) ==
    /\ ~call.done
    /\ ~stored.done
    /\ \E w \in {wasmArguments(f, params, MemState(mem, brk), options, sl)} :
         /\ w.st.err = ""
         /\ w.st.brk <= byteLength(mem)
         /\ mem' = w.st.mem
         /\ brk' = w.st.brk
         /\ stored' = [done |-> TRUE, func |-> f, params |-> params, flat |-> w.out]
    /\ UNCHANGED <<options, loaded, desc, call, flagsObj, wire, disc>>

\* the host function of createHostFunction (lines 2144-2146): func.callService(params,
\* serviceFunction, memory, options), the service function returning nativeResult
CallService ==
    /\ stored.done
    /\ ~call.done
    /\ \E nativeResult \in NativeValues(stored.func.returnType) : \E sl \in 0..MaxSlack :
         \E c \in {callService(stored.func, stored.flat, nativeResult, MemState(mem, brk),
                                options, sl)} :
             /\ mem' = c.st.mem
             /\ brk' = c.st.brk
             /\ call' = [done |-> TRUE, op |-> "callService", func |-> stored.func,
                         params |-> stored.params, wasmValues |-> stored.flat,
                         invoked |-> c.invoked, jParams |-> c.jParams,
                         nativeResult |-> nativeResult, usedOut |-> c.usedOut,
                         ret |-> IF c.st.err # "" THEN Err(c.st.err) ELSE Ok(c.ret)]
    /\ UNCHANGED <<options, stored, loaded, desc, flagsObj, wire, disc>>

NextCall ==
    \/ \E f \in FunctionTypes : \E params \in ArgumentsOf(f.params) :
         \E result \in GuestReturns(f) : \E written \in NativeValues(f.returnType) :
           \E sl \in 0..MaxSlack : CallWasm(f, params, result, written, sl)
    \/ \E f \in FunctionTypes : \E params \in ArgumentsOf(f.params) :
         \E sl \in 0..MaxSlack : PrepareCall(f, params, sl)
    \/ CallService

SpecCall == InitCall /\ [][NextCall]_vars

\* a returned JavaScript value v (a number or a bigint off the flat stack) is the native
\* value n of type t: the same number for the integer types up to 32 bits, the same
\* bigint for the 64-bit ones; a number is never a boolean or a string
SameNative(t, n, v) ==
    /\ ~IsUndefined(v)
    /\ IsInt(t.kind)
    /\ v.big = (t.size = 8)
    /\ v.v = n

\* C3: callWasm on a function with one flat result returns the value obtained by lifting
\* the flat value the guest returned through the return type (and fails when that lift
\* fails); with no flat result it returns nothing, with more than one the value loaded
\* from the return buffer.
C3_CallWasmLiftsReturn ==
    (call.done /\ call.op = "callWasm" /\ call.invoked) =>
        LET f == call.func
            lifted == liftFlat(mem, f.returnType, <<call.result>>, options)
        IN  IF f.returnFlatTypes = 0 THEN call.ret = Ok(Undefined)
            ELSE IF f.returnFlatTypes = 1
            THEN IF lifted.ok
                 THEN call.ret.ok /\ SameNative(f.returnType, lifted.val, call.ret.val)
                 ELSE ~call.ret.ok
            ELSE call.ret = load(mem, call.resultPtr.v, f.returnType, options)

\* C4: callService on a function with no flat result returns nothing and on one with a
\* single flat result returns exactly one flat value, the lowered native result, for
\* every parameter list; the last flat parameter is an out-pointer only when there is
\* more than one flat result.
C4_CallServiceDirectReturn ==
    (call.done /\ call.op = "callService" /\ call.func.returnFlatTypes <= MAX_FLAT_RESULTS
        /\ call.func.paramFlatTypes <= MAX_FLAT_PARAMS) =>
        LET f == call.func
            lowered == lowerFlat(Lowering(<< >>, MemState(mem, brk)), f.returnType,
                                 call.nativeResult, options, 0)
        IN  /\ call.invoked
            /\ call.ret.ok
            /\ ~call.usedOut
            /\ IF f.returnFlatTypes = 0 THEN call.ret.val = Undefined
               ELSE <<call.ret.val>> = lowered.out

\* C5: for a function with more than 16 flat parameters and more than one flat result,
\* callService accepts [params_ptr, out_ptr], loads the parameter tuple from params_ptr,
\* invokes the native implementation and stores the result at out_ptr.
C5_CallServiceIndirect ==
    (call.done /\ call.op = "callService" /\ call.func.returnFlatTypes > MAX_FLAT_RESULTS
        /\ call.func.paramFlatTypes > MAX_FLAT_PARAMS) =>
        /\ Len(call.wasmValues) = 2
        /\ call.ret.ok
        /\ call.invoked
        /\ call.jParams = call.params
        /\ load(mem, call.wasmValues[2].v, call.func.returnType, options)
               = Ok(call.nativeResult)

(***************************************************************************)
(* Flags (FlagsType).  Flag i has index i >>> 5 and mask 1 << (i & 31).    *)
(* The operands and results of <<, |, & and ~ are 32-bit signed integers:  *)
(* 1 << 31 is -2^31.  The words of the model are below 2^31 before any     *)
(* setter is called.                                                       *)
(***************************************************************************)
\* FlagsType.num32Flags (lines 1408-1410)
num32Flags(fields) == (fields + 31) \div 32

\* FlagsType.size (lines 1372-1382)
FlagsType_size(fields) ==
    IF fields = 0 THEN 0
    ELSE IF fields <= 8 THEN 1
    ELSE IF fields <= 16 THEN 2
    ELSE 4 * num32Flags(fields)

\* FlagsType.alignment (lines 1384-1392)
FlagsType_alignment(fields) == IF fields <= 8 THEN 1 ELSE IF fields <= 16 THEN 2 ELSE 4

\* FlagsType.getType (lines 1398-1406)
FlagsType_getType(size) ==
    IF size = 0 THEN [storage |-> "Empty"]
    ELSE IF size = 1 THEN [storage |-> "Single", type |-> u8]
    ELSE IF size = 2 THEN [storage |-> "Single", type |-> u16]
    ELSE IF size = 4 THEN [storage |-> "Single", type |-> u32]
    ELSE [storage |-> "Array", type |-> u32]

\* the FlagsType constructor (lines 1239-1252)
FlagsType(nr) ==
    [kind |-> "flags", nr |-> nr, size |-> FlagsType_size(nr),
     alignment |-> FlagsType_alignment(nr),
     flatTypes |-> [i \in 1..num32Flags(nr) |-> "i32"],
     type |-> FlagsType_getType(FlagsType_size(nr))]

\* the low 31 bits of a 32-bit signed integer
Low31(bits) == IF bits < 0 THEN (bits + Pow2(30)) + Pow2(30) ELSE bits
\* 1 << (i & 31)
mask(i) == IF i % 32 = 31 THEN (0 - Pow2(30)) - Pow2(30) ELSE Pow2(i % 32)
\* (bits & mask) !== 0, bits | mask and bits & ~mask for a one-bit mask
masked(bits, m) == IF m < 0 THEN bits < 0 ELSE (Low31(bits) \div m) % 2 = 1
bitOr(bits, m) == IF masked(bits, m) THEN bits ELSE bits + m
bitAndNot(bits, m) == IF masked(bits, m) THEN bits - m ELSE bits

\* FlagsType.createSingle (lines 1336-1352): the object gets a copy of the parameter as
\* its _bits property; the accessors close over the parameter itself
createSingle(bits) == [bits |-> bits, _bits |-> bits]
\* the get and set accessors of flag i
getFlag(flags, i) == masked(flags.bits, mask(i))
setFlag(flags, i, newVal) ==
    [flags EXCEPT !.bits = IF newVal THEN bitOr(@, mask(i)) ELSE bitAndNot(@, mask(i))]

\* FlagsType.create (lines 1254-1263), FlagsType.load (lines 1265-1281) and
\* FlagsType.liftFlat (lines 1283-1298), single storage
FlagsType_create(t) == createSingle(0)
FlagsType_load(t, m, p, opts) ==
    Strict(LAMBDA r : IF r.ok THEN Ok(createSingle(r.val)) ELSE r,
           load(m, p, t.type.type, opts))
FlagsType_liftFlat(t, m, values, opts) ==
    Strict(LAMBDA r : IF r.ok THEN Ok(createSingle(r.val)) ELSE Err(r.err),
           liftFlat(m, t.type.type, values, opts))

\* FlagsType.store (lines 1303-1318) and FlagsType.lowerFlat (lines 1320-1334), single
\* storage: both pass flags._bits to the storage type
FlagsType_store(t, st, p, flags, opts) == store(st, p, t.type.type, flags._bits, opts, 0)
FlagsType_lowerFlat(t, ls, flags, opts) == lowerFlat(ls, t.type.type, flags._bits, opts, 0)

(***************************************************************************)
(* A native flags value is created, loaded or lifted, its setters are      *)
(* called, and it is stored or lowered.  wire keeps the word written       *)
(* together with what the getters report at that moment.                   *)
(***************************************************************************)
FlagsMemBytes == 4      \* bytes of linear memory holding a flags word
FlagCounts == {3, 9, 26}
\* the flags whose setters are called: the second flag (b) and the last one (z of 26)
FlagIndices(nr) == {1, nr - 1}
\* every word with a subset of those flags set
FlagWords(nr) == {0, mask(1), mask(nr - 1), mask(1) + mask(nr - 1)}

InitFlags ==
    /\ \E nr \in FlagCounts : \E w \in FlagWords(nr) :
         mem = setLE([a \in 0..(FlagsMemBytes - 1) |-> 0], 0, FlagsType_size(nr), w)
    /\ brk = 0
    /\ options = [encoding |-> "utf-8", keepOption |-> FALSE]
    /\ stored = Idle
    /\ loaded = Idle
    /\ desc = Idle
    /\ call = Idle
    /\ flagsObj = Idle
    /\ wire = Idle
    /\ disc = Idle

\* flags = T.create()
CreateFlags(nr) ==
    /\ ~flagsObj.done
    /\ flagsObj' = [done |-> TRUE, type |-> FlagsType(nr), from |-> "create",
                    flags |-> FlagsType_create(FlagsType(nr))]
    /\ UNCHANGED <<mem, brk, options, stored, loaded, desc, call, wire, disc>>

\* flags = T.load(memory, 0, options)
LoadFlags(nr) ==
    /\ ~flagsObj.done
    /\ \E r \in {FlagsType_load(FlagsType(nr), mem, 0, options)} :
         /\ r.ok
         /\ flagsObj' = [done |-> TRUE, type |-> FlagsType(nr), from |-> "load",
                         flags |-> r.val]
    /\ UNCHANGED <<mem, brk, options, stored, loaded, desc, call, wire, disc>>

\* flags = T.liftFlat(memory, [w].values(), options)
LiftFlags(nr, w) ==
    /\ ~flagsObj.done
    /\ \E r \in {FlagsType_liftFlat(FlagsType(nr), mem, <<Num(w)>>, options)} :
         /\ r.ok
         /\ flagsObj' = [done |-> TRUE, type |-> FlagsType(nr), from |-> "lift",
                         flags |-> r.val]
    /\ UNCHANGED <<mem, brk, options, stored, loaded, desc, call, wire, disc>>

\* flags.<name of flag i> = newVal
SetFlag(i, newVal) ==
    /\ flagsObj.done
    /\ i \in FlagIndices(flagsObj.type.nr)
    /\ flagsObj' = [flagsObj EXCEPT !.flags = setFlag(@, i, newVal)]
    /\ UNCHANGED <<mem, brk, options, stored, loaded, desc, call, wire, disc>>

\* the flags the getters report as true
FlagsSet(t, flags) == {i \in 0..(t.nr - 1) : getFlag(flags, i)}

\* T.store(memory, 0, flags, options)
StoreFlags ==
    /\ flagsObj.done
    /\ \E st \in {FlagsType_store(flagsObj.type, MemState(mem, brk), 0, flagsObj.flags,
                                  options)} :
         /\ st.err = ""
         /\ mem' = st.mem
         /\ wire' = [done |-> TRUE, op |-> "store", nr |-> flagsObj.type.nr,
                     word |-> getLE(st.mem, 0, flagsObj.type.size),
                     getters |-> FlagsSet(flagsObj.type, flagsObj.flags)]
    /\ UNCHANGED <<brk, options, stored, loaded, desc, call, flagsObj, disc>>

\* T.lowerFlat(result, memory, flags, options)
LowerFlags ==
    /\ flagsObj.done
    /\ \E ls \in {FlagsType_lowerFlat(flagsObj.type, Lowering(<< >>, MemState(mem, brk)),
                                      flagsObj.flags, options)} :
         /\ ls.st.err = ""
         /\ Len(ls.out) = 1
         /\ wire' = [done |-> TRUE, op |-> "lower", nr |-> flagsObj.type.nr,
                     word |-> ls.out[1].v,
                     getters |-> FlagsSet(flagsObj.type, flagsObj.flags)]
    /\ UNCHANGED <<mem, brk, options, stored, loaded, desc, call, flagsObj, disc>>

NextFlags ==
    \/ \E nr \in FlagCounts : CreateFlags(nr)
    \/ \E nr \in FlagCounts : LoadFlags(nr)
    \/ \E nr \in FlagCounts : \E w \in FlagWords(nr) : LiftFlags(nr, w)
    \/ \E i \in 0..31 : \E newVal \in BOOLEAN : SetFlag(i, newVal)
    \/ StoreFlags
    \/ LowerFlags

SpecFlags == InitFlags /\ [][NextFlags]_vars

\* C6: the word that store and lower write has bit i set exactly when the getter of
\* flag i reports true, whatever setters were called on the flags value before.
C6_FlagsWriteCurrentBits ==
    wire.done => \A i \in 0..(wire.nr - 1) : masked(wire.word, mask(i)) = (i \in wire.getters)

(***************************************************************************)
(* Discriminants and enums (VariantType.discriminantType, EnumType).       *)
(***************************************************************************)
\* Math.ceil(Math.log2(cases) / 8) for cases >= 1: the least k with cases <= 256^k
RECURSIVE CeilLog256(_)
CeilLog256(cases) == IF cases <= 1 THEN 0 ELSE 1 + CeilLog256((cases + 255) \div 256)

\* VariantType.discriminantType (lines 1581-1589); Math.log2(0) is -Infinity, which no
\* case of the switch matches
VariantType_discriminantType(cases) ==
    IF cases = 0 THEN Err("Too many cases")
    ELSE Strict(LAMBDA k : IF k <= 1 THEN Ok(u8)
                           ELSE IF k = 2 THEN Ok(u16)
                           ELSE IF k = 3 THEN Ok(u32)
                           ELSE Err("Too many cases"),
                CeilLog256(cases))

\* EnumType.discriminantType (lines 1666-1674)
EnumType_discriminantType(cases) ==
    IF cases = 0 THEN Err("Too many cases")
    ELSE Strict(LAMBDA k : IF k <= 1 THEN Ok(u8)
                           ELSE IF k = 2 THEN Ok(u16)
                           ELSE IF k = 3 THEN Ok(u32)
                           ELSE Err("Too many cases"),
                CeilLog256(cases))

\* the EnumType constructor (lines 1634-1641)
EnumType(cases) ==
    Strict(LAMBDA d : IF ~d.ok THEN d
                      ELSE Ok([kind |-> "enum", cases |-> cases, discriminantType |-> d.val,
                               size |-> d.val.size, alignment |-> d.val.alignment,
                               flatTypes |-> d.val.flatTypes]),
           EnumType_discriminantType(cases))

\* EnumType.assertRange (lines 1659-1664)
assertRange(t, value) ==
    IF value < 0 \/ value > t.cases THEN Err("Enumeration value out of range")
    ELSE Ok(value)

\* EnumType.load (lines 1643-1645) and EnumType.liftFlat (lines 1646-1648)
EnumType_load(t, m, p, opts) ==
    Strict(LAMBDA r : IF r.ok THEN assertRange(t, r.val) ELSE r,
           load(m, p, t.discriminantType, opts))
EnumType_liftFlat(t, m, values, opts) ==
    Strict(LAMBDA r : IF r.ok THEN assertRange(t, r.val) ELSE Err(r.err),
           liftFlat(m, t.discriminantType, values, opts))

(***************************************************************************)
(* A variant or enum descriptor is constructed for a case count; a guest   *)
(* writes a discriminant into memory; the enum loads it or lifts a flat    *)
(* value.                                                                  *)
(***************************************************************************)
EnumMemBytes == 4       \* bytes of linear memory holding a discriminant
\* case counts around each width boundary of the discriminant
CaseCounts == {1, 2, 3, 255, 256, 257, 65535, 65536, 65537,
               16777215, 16777216, 16777217, 33554432, 1073741824}
\* the values a guest hands over for an enum of c cases
WireValues(c) == {v \in {0, c - 1, c, c + 1, 255, 256} : v >= 0}

InitEnum ==
    /\ mem = [a \in 0..(EnumMemBytes - 1) |-> 0]
    /\ brk = 0
    /\ options = [encoding |-> "utf-8", keepOption |-> FALSE]
    /\ stored = Idle
    /\ loaded = Idle
    /\ desc = Idle
    /\ call = Idle
    /\ flagsObj = Idle
    /\ wire = Idle
    /\ disc = Idle

\* new VariantType(<cases> cases): the discriminant type its constructor asks for
NewVariant(cases) ==
    /\ ~disc.done
    /\ disc' = [done |-> TRUE, kind |-> "variant", cases |-> cases,
                res |-> VariantType_discriminantType(cases)]
    /\ UNCHANGED <<mem, brk, options, stored, loaded, desc, call, flagsObj, wire>>

\* new EnumType(cases)
NewEnum(cases) ==
    /\ ~disc.done
    /\ disc' = [done |-> TRUE, kind |-> "enum", cases |-> cases,
                res |-> Strict(LAMBDA e : IF e.ok THEN Ok(e.val.discriminantType) ELSE e,
                               EnumType(cases)),
                type |-> EnumType(cases)]
    /\ UNCHANGED <<mem, brk, options, stored, loaded, desc, call, flagsObj, wire>>

\* the guest writes the discriminant v of the enum at address 0
GuestWritesEnum(v) ==
    /\ disc.done
    /\ disc.kind = "enum"
    /\ disc.res.ok
    /\ ~wire.done
    /\ v \in WireValues(disc.cases)
    /\ disc.res.val.size < 4 => v < Pow2(8 * disc.res.val.size)
    /\ mem' = setLE(mem, 0, disc.res.val.size, v)
    /\ UNCHANGED <<brk, options, stored, loaded, desc, call, flagsObj, wire, disc>>

\* T.load(memory, 0, options)
LoadEnum ==
    /\ disc.done
    /\ disc.kind = "enum"
    /\ disc.res.ok
    /\ ~wire.done
    /\ wire' = [done |-> TRUE, op |-> "load", cases |-> disc.cases,
                value |-> getLE(mem, 0, disc.res.val.size),
                res |-> EnumType_load(disc.type.val, mem, 0, options)]
    /\ UNCHANGED <<mem, brk, options, stored, loaded, desc, call, flagsObj, disc>>

\* T.liftFlat(memory, [v].values(), options)
LiftEnum(v) ==
    /\ disc.done
    /\ disc.kind = "enum"
    /\ disc.res.ok
    /\ ~wire.done
    /\ v \in WireValues(disc.cases)
    /\ wire' = [done |-> TRUE, op |-> "lift", cases |-> disc.cases, value |-> v,
                res |-> EnumType_liftFlat(disc.type.val, mem, <<Num(v)>>, options)]
    /\ UNCHANGED <<mem, brk, options, stored, loaded, desc, call, flagsObj, disc>>

EnumInputs == UNION {WireValues(c) : c \in CaseCounts}

NextEnum ==
    \/ \E cases \in CaseCounts \cup {0} : NewVariant(cases)
    \/ \E cases \in CaseCounts \cup {0} : NewEnum(cases)
    \/ \E v \in EnumInputs : GuestWritesEnum(v)
    \/ LoadEnum
    \/ \E v \in EnumInputs : LiftEnum(v)

SpecEnum == InitEnum /\ [][NextEnum]_vars

\* C7: load and lift of an enum with case_count cases return a value only if it lies in
\* [0, case_count), and then that value; a wire value >= case_count fails.
C7_EnumRange ==
    wire.done =>
        IF wire.value < wire.cases THEN wire.res.ok => wire.res.val = wire.value
        ELSE ~wire.res.ok

\* C8: the discriminant type is u8 for 1 to 256 cases, u16 for 257 to 65536, u32 from
\* 65537 on, and construction does not fail for any case count up to 2^32.
C8_DiscriminantWidth ==
    (disc.done /\ disc.cases >= 1) =>
        /\ disc.res.ok
        /\ disc.res.val = IF disc.cases <= 256 THEN u8
                          ELSE IF disc.cases <= 65536 THEN u16
                          ELSE u32

(***************************************************************************)
(* char.  A guest hands a code point over in memory or on the flat stack   *)
(* and the host loads or lifts it; the host stores or lowers a native      *)
(* string.  loaded keeps the last load or lift, stored the last store or   *)
(* lower.                                                                  *)
(***************************************************************************)
CharMemBytes == 4       \* bytes of linear memory holding a char
\* code points at the ends of each range of the char type
CodePoints == {0, 97, 55295, 55296, 56320, 57343, 57344, 65535, 65536, 128512,
               1114111, 1114112}
\* native strings: what String.fromCodePoint makes of those code points, lone
\* surrogates, the empty string and "ab"
NativeStrings == {StringFromCodePoint(cp) : cp \in CodePoints \ {1114112}}
                     \cup {<< >>, <<97, 98>>}

IsSurrogate(code) == 55296 <= code /\ code <= 57343
IsScalarValue(code) == 0 <= code /\ code <= 1114111 /\ ~IsSurrogate(code)

InitChar ==
    /\ mem = [a \in 0..(CharMemBytes - 1) |-> 0]
    /\ brk = 0
    /\ options = [encoding |-> "utf-8", keepOption |-> FALSE]
    /\ stored = Idle
    /\ loaded = Idle
    /\ desc = Idle
    /\ call = Idle
    /\ flagsObj = Idle
    /\ wire = Idle
    /\ disc = Idle

\* the guest writes the code point cp at address 0
GuestWritesChar(cp) ==
    /\ ~loaded.done
    /\ ~stored.done
    /\ mem' = setLE(mem, 0, 4, cp)
    /\ UNCHANGED <<brk, options, stored, loaded, desc, call, flagsObj, wire, disc>>

\* wchar.load(memory, 0, options)
LoadChar ==
    /\ ~loaded.done
    /\ loaded' = [done |-> TRUE, op |-> "load", code |-> getLE(mem, 0, 4),
                  res |-> load(mem, 0, wchar, options)]
    /\ UNCHANGED <<mem, brk, options, stored, desc, call, flagsObj, wire, disc>>

\* wchar.liftFlat(memory, [cp].values(), options)
LiftChar(cp) ==
    /\ ~loaded.done
    /\ \E r \in {liftFlat(mem, wchar, <<Num(cp)>>, options)} :
         loaded' = [done |-> TRUE, op |-> "lift", code |-> cp,
                    res |-> IF r.ok THEN Ok(r.val) ELSE Err(r.err)]
    /\ UNCHANGED <<mem, brk, options, stored, desc, call, flagsObj, wire, disc>>

\* wchar.store(memory, 0, str, options)
StoreChar(str) ==
    /\ ~stored.done
    /\ \E st \in {store(MemState(mem, brk), 0, wchar, str, options, 0)} :
         /\ mem' = st.mem
         /\ stored' = [done |-> TRUE, op |-> "store", str |-> str, err |-> st.err,
                       out |-> IF st.err = "" THEN <<Num(getLE(st.mem, 0, 4))>> ELSE << >>]
    /\ UNCHANGED <<brk, options, loaded, desc, call, flagsObj, wire, disc>>

\* wchar.lowerFlat(result, memory, str, options)
LowerChar(str) ==
    /\ ~stored.done
    /\ \E ls \in {lowerFlat(Lowering(<< >>, MemState(mem, brk)), wchar, str, options, 0)} :
         stored' = [done |-> TRUE, op |-> "lower", str |-> str, err |-> ls.st.err,
                    out |-> ls.out]
    /\ UNCHANGED <<mem, brk, options, loaded, desc, call, flagsObj, wire, disc>>

NextChar ==
    \/ \E cp \in CodePoints : GuestWritesChar(cp)
    \/ LoadChar
    \/ \E cp \in CodePoints : LiftChar(cp)
    \/ \E str \in NativeStrings : StoreChar(str)
    \/ \E str \in NativeStrings : LowerChar(str)

SpecChar == InitChar /\ [][NextChar]_vars

\* C9: load and lift of a surrogate or of a value >= 0x110000 fail, and store and lower
\* of a one-unit native string whose code point is a surrogate fail.
C9_CharRejectsSurrogates ==
    /\ (loaded.done /\ ~IsScalarValue(loaded.code)) => ~loaded.res.ok
    /\ (stored.done /\ Len(stored.str) = 1 /\ IsSurrogate(stored.str[1]))
           => stored.err # ""

\* C10: lifting a Unicode scalar value cp yields a native char whose lower yields cp
\* again, code points above 0xFFFF included; a native string of two code points fails
\* to lower.
C10_CharRoundTrip ==
    /\ (loaded.done /\ loaded.op = "lift" /\ IsScalarValue(loaded.code)) => loaded.res.ok
    /\ (loaded.done /\ loaded.op = "lift" /\ loaded.res.ok
          /\ stored.done /\ stored.op = "lower" /\ stored.str = loaded.res.val)
           => /\ stored.err = ""
              /\ stored.out = <<Num(loaded.code)>>
    /\ (stored.done /\ stored.op = "lower" /\ stored.str = <<97, 98>>) => stored.err # ""

(***************************************************************************)
(* Numbers of any size.  The limits of the 32-bit and 64-bit types are     *)
(* past the integers of the model checker, so where those limits matter a  *)
(* JavaScript number or bigint is a sign and a magnitude in limbs of 16    *)
(* bits, least significant first and without leading zeros.                *)
(***************************************************************************)
Base == Pow2(16)
Limb0(a) == IF a = << >> THEN 0 ELSE Head(a)
Tail0(a) == IF a = << >> THEN << >> ELSE Tail(a)

RECURSIVE MagNorm(_)
MagNorm(a) ==
    IF a = << >> \/ a[Len(a)] # 0 THEN a ELSE MagNorm(SubSeq(a, 1, Len(a) - 1))

RECURSIVE MagLess(_, _)
MagLess(a, b) ==
    IF Len(a) # Len(b) THEN Len(a) < Len(b)
    ELSE IF a = << >> THEN FALSE
    ELSE IF a[Len(a)] # b[Len(b)] THEN a[Len(a)] < b[Len(b)]
    ELSE MagLess(SubSeq(a, 1, Len(a) - 1), SubSeq(b, 1, Len(b) - 1))

RECURSIVE MagAdd(_, _, _)
MagAdd(a, b, carry) ==
    IF a = << >> /\ b = << >> THEN (IF carry = 0 THEN << >> ELSE <<carry>>)
    ELSE Strict(LAMBDA sum : <<sum % Base>> \o MagAdd(Tail0(a), Tail0(b), sum \div Base),
                Limb0(a) + Limb0(b) + carry)

\* a - b - borrow for a >= b + borrow, not normalised
RECURSIVE MagSub(_, _, _)
MagSub(a, b, borrow) ==
    IF a = << >> THEN << >>
    ELSE Strict(LAMBDA d : <<d % Base>> \o MagSub(Tail(a), Tail0(b), IF d < 0 THEN 1 ELSE 0),
                (Head(a) - Limb0(b)) - borrow)

Wide(neg, mag) == [neg |-> neg /\ mag # << >>, mag |-> mag]
\* the wide number of an integer of the model checker
WInt(i) ==
    IF i < 0 THEN Wide(TRUE, MagNorm(<<(0 - i) % Base, (0 - i) \div Base>>))
    ELSE Wide(FALSE, MagNorm(<<i % Base, i \div Base>>))
\* 2^n
WPow2(n) == Wide(FALSE, [i \in 1..((n \div 16) + 1) |->
                            IF i = (n \div 16) + 1 THEN Pow2(n % 16) ELSE 0])
WNeg(x) == Wide(~x.neg, x.mag)
\* x < y
WLess(x, y) ==
    IF x.neg # y.neg THEN x.neg
    ELSE IF x.neg THEN MagLess(y.mag, x.mag)
    ELSE MagLess(x.mag, y.mag)
\* x + y
WAdd(x, y) ==
    IF x.neg = y.neg THEN Wide(x.neg, MagAdd(x.mag, y.mag, 0))
    ELSE IF MagLess(x.mag, y.mag) THEN Wide(y.neg, MagNorm(MagSub(y.mag, x.mag, 0)))
    ELSE Wide(x.neg, MagNorm(MagSub(x.mag, y.mag, 0)))
WSub(x, y) == WAdd(x, WNeg(y))

(***************************************************************************)
(* The integer types over numbers of any size.  A value is a number or a   *)
(* bigint (big) holding the wide number w.                                 *)
(***************************************************************************)
NumW(w) == [big |-> FALSE, w |-> w]
BigW(w) == [big |-> TRUE, w |-> w]
IntBits(t) == 8 * t.size

\* LOW_VALUE and HIGH_VALUE of the namespace of t (lines 217-218, 256-257, 295-296,
\* 334-335, 373-374, 420-421, 459-460, 498-499)
LOW_VALUE(t) == IF IsSigned(t.kind) THEN WNeg(WPow2(IntBits(t) - 1)) ELSE WInt(0)
HIGH_VALUE(t) ==
    IF IsSigned(t.kind) THEN WSub(WPow2(IntBits(t) - 1), WInt(1))
    ELSE WSub(WPow2(IntBits(t)), WInt(1))
\* $u8.HIGH_VALUE, $u16.HIGH_VALUE, $u32.HIGH_VALUE as the signed liftFlat uses them
UnsignedHigh(t) == WSub(WPow2(IntBits(t)), WInt(1))

\* (value <= HIGH_VALUE) ? value : value - 2^n  (lines 389-393, 432, 471, 510)
toSigned(t, w) == IF WLess(HIGH_VALUE(t), w) THEN WSub(w, WPow2(IntBits(t))) ELSE w
\* a lowering that pushes a negative value as it is
toUnsigned_asIs(t, w) == w
\* (value < 0) ? (value + 2^n) : value  (lines 408, 447, 486, 525)
toUnsigned(t, w) == IF WLess(w, WInt(0)) THEN WAdd(w, WPow2(IntBits(t))) ELSE w

\* liftFlat of the integer types: $u8, $u16, $u32 (224-230, 263-269, 302-308), $u64
\* (341-347), $s8, $s16, $s32 (380-394, 427-433, 466-472), $s64 (505-511).  A number
\* and a bigint do not mix in an addition (TypeError).
liftIntWide(t, x) ==
    IF t.kind = "u64"
    THEN IF ~IsUndefined(x) /\ WLess(x.w, WInt(0)) THEN Err("Invalid u64 value") ELSE Ok(x)
    ELSE IF t.kind = "s64"
    THEN IF IsUndefined(x) THEN Err("TypeError")
         ELSE IF WLess(x.w, WInt(0)) THEN Err("Invalid s64 value")
         ELSE IF ~WLess(HIGH_VALUE(t), x.w) THEN Ok(x)
         ELSE IF x.big THEN Ok(BigW(toSigned(t, x.w)))
         ELSE Err("TypeError")
    ELSE IF IsUndefined(x) THEN Err("Invalid value")
    ELSE IF x.big \/ WLess(x.w, WInt(0)) \/ WLess(UnsignedHigh(t), x.w)
    THEN Err("Invalid value")
    ELSE IF IsSigned(t.kind) THEN Ok(NumW(toSigned(t, x.w)))
    ELSE Ok(x)

\* lowerFlat of the integer types: $u8, $u16, $u32 (240-245, 279-284, 318-323), $u64
\* (357-362), $s8, $s16, $s32 (404-409, 443-448, 482-487), $s64 (521-526); result is the
\* sink, returned with what was pushed
lowerIntWide(result, t, v) ==
    IF t.kind = "u64"
    THEN IF WLess(v.w, WInt(0)) THEN [ok |-> FALSE, out |-> result, err |-> "Invalid u64 value"]
         ELSE [ok |-> TRUE, out |-> Append(result, v), err |-> ""]
    ELSE IF t.kind = "s64"
    THEN IF WLess(v.w, LOW_VALUE(t)) \/ WLess(HIGH_VALUE(t), v.w)
         THEN [ok |-> FALSE, out |-> result, err |-> "Invalid s64 value"]
         ELSE IF ~v.big /\ v.w.neg THEN [ok |-> FALSE, out |-> result, err |-> "TypeError"]
         ELSE [ok |-> TRUE, out |-> Append(result, [v EXCEPT !.w = toUnsigned(t, @)]),
               err |-> ""]
    ELSE IF v.big \/ WLess(v.w, LOW_VALUE(t)) \/ WLess(HIGH_VALUE(t), v.w)
    THEN [ok |-> FALSE, out |-> result, err |-> "Invalid value"]
    ELSE IF IsSigned(t.kind)
    THEN [ok |-> TRUE, out |-> Append(result, NumW(toUnsigned(t, v.w))), err |-> ""]
    ELSE [ok |-> TRUE, out |-> Append(result, v), err |-> ""]

(***************************************************************************)
(* An integer is lowered, a flat value is lifted, and the slot a lowering  *)
(* produced is lifted back.                                                *)
(***************************************************************************)
IntTypes == {u8, u16, u32, u64, s8, s16, s32, s64}
\* the values around every limit of a type of n bits
LimitValues(n) ==
    {WNeg(WAdd(WPow2(n - 1), WInt(1))), WNeg(WPow2(n - 1)), WInt(0 - 1), WInt(0), WInt(1),
     WSub(WPow2(n - 1), WInt(1)), WPow2(n - 1), WSub(WPow2(n), WInt(1)), WPow2(n),
     WAdd(WPow2(n), WInt(1))}
\* numbers for the types up to 32 bits, bigints for the 64-bit ones
IntValues(t) == {[big |-> t.size = 8, w |-> w] : w \in LimitValues(IntBits(t))}

InitInt ==
    /\ mem = << >>
    /\ brk = 0
    /\ options = [encoding |-> "utf-8", keepOption |-> FALSE]
    /\ stored = Idle
    /\ loaded = Idle
    /\ desc = Idle
    /\ call = Idle
    /\ flagsObj = Idle
    /\ wire = Idle
    /\ disc = Idle

\* T.lowerFlat(result, memory, v) with an empty sink
LowerInt(t, v) ==
    /\ ~stored.done
    /\ ~loaded.done
    /\ stored' = [done |-> TRUE, type |-> t, value |-> v, res |-> lowerIntWide(<< >>, t, v)]
    /\ loaded' = Idle
    /\ UNCHANGED <<mem, brk, options, desc, call, flagsObj, wire, disc>>

\* T.liftFlat(memory, [x].values())
LiftInt(t, x) ==
    /\ ~stored.done
    /\ ~loaded.done
    /\ loaded' = [done |-> TRUE, type |-> t, slot |-> x, from |-> "guest",
                  res |-> liftIntWide(t, x)]
    /\ UNCHANGED <<mem, brk, options, stored, desc, call, flagsObj, wire, disc>>

\* T.liftFlat(memory, result.values()) on the sink of the last lowerFlat
LiftLowered ==
    /\ stored.done
    /\ stored.res.ok
    /\ ~loaded.done
    /\ loaded' = [done |-> TRUE, type |-> stored.type, slot |-> stored.res.out[1],
                  from |-> "lowered", res |-> liftIntWide(stored.type, stored.res.out[1])]
    /\ UNCHANGED <<mem, brk, options, stored, desc, call, flagsObj, wire, disc>>

NextInt ==
    \/ \E t \in IntTypes : \E v \in IntValues(t) : LowerInt(t, v)
    \/ \E t \in IntTypes : \E x \in IntValues(t) : LiftInt(t, x)
    \/ LiftLowered

SpecInt == InitInt /\ [][NextInt]_vars

\* lo <= w <= hi
InRangeW(w, lo, hi) == ~WLess(w, lo) /\ ~WLess(hi, w)

\* C11: lower and lift of an unsigned type of n bits succeed exactly for the values in
\* [0, 2^n - 1], and a failed lower leaves the sink empty.
C11_UnsignedRange ==
    /\ (stored.done /\ ~IsSigned(stored.type.kind)) =>
          /\ stored.res.ok <=> InRangeW(stored.value.w, WInt(0),
                                        WSub(WPow2(IntBits(stored.type)), WInt(1)))
          /\ ~stored.res.ok => stored.res.out = << >>
    /\ (loaded.done /\ ~IsSigned(loaded.type.kind)) =>
          (loaded.res.ok <=> InRangeW(loaded.slot.w, WInt(0),
                                      WSub(WPow2(IntBits(loaded.type)), WInt(1))))

\* C12: lower of a signed type of n bits appends the one slot v mod 2^n for v in
\* [-2^(n-1), 2^(n-1) - 1] and fails outside; lift of that slot returns v; lift of a
\* wire value in [0, 2^n - 1] returns it, less 2^n when it is above 2^(n-1) - 1.
C12_SignedWire ==
    /\ (stored.done /\ IsSigned(stored.type.kind)) =>
          LET n == IntBits(stored.type)
              v == stored.value.w
          IN  IF InRangeW(v, WNeg(WPow2(n - 1)), WSub(WPow2(n - 1), WInt(1)))
              THEN /\ stored.res.ok
                   /\ Len(stored.res.out) = 1
                   /\ InRangeW(stored.res.out[1].w, WInt(0), WSub(WPow2(n), WInt(1)))
                   /\ stored.res.out[1].w \in {v, WAdd(v, WPow2(n))}
              ELSE ~stored.res.ok /\ stored.res.out = << >>
    /\ (loaded.done /\ IsSigned(loaded.type.kind) /\ loaded.from = "lowered") =>
          loaded.res = Ok(stored.value)
    /\ (loaded.done /\ IsSigned(loaded.type.kind)
          /\ InRangeW(loaded.slot.w, WInt(0), WSub(WPow2(IntBits(loaded.type)), WInt(1)))) =>
          LET n == IntBits(loaded.type) IN
          /\ loaded.res.ok
          /\ loaded.res.val.w = IF WLess(WSub(WPow2(n - 1), WInt(1)), loaded.slot.w)
                                THEN WSub(loaded.slot.w, WPow2(n))
                                ELSE loaded.slot.w

\* C12 witness: -2^63 was lowered as an s64 and the slot 2^63 lifted back
C12_Witness ==
    /\ loaded.done
    /\ loaded.from = "lowered"
    /\ stored.type = s64
    /\ stored.value.w = WNeg(WPow2(63))
    /\ stored.res.out = <<BigW(WPow2(63))>>
    /\ loaded.res.ok

(***************************************************************************)
(* Variants and options: the attributes their constructors compute.        *)
(***************************************************************************)
float32 == Prim("float32", 4, 4, "f32")
float64 == Prim("float64", 8, 8, "f64")

\* VariantCase.create (lines 1419-1421), for every entry of the constructor's argument;
\* the undefined wantFlatTypes of a case without payload is the empty list
VariantCase_create(index, type) ==
    [index |-> index, type |-> type, wantFlatTypes |-> << >>]

\* VariantType.maxCaseAlignment (lines 1591-1599)
RECURSIVE VariantType_maxCaseAlignment(_, _, _)
VariantType_maxCaseAlignment(cases, i, result) ==
    IF i > Len(cases) THEN result
    ELSE VariantType_maxCaseAlignment(cases, i + 1,
             IF cases[i].type # NoType THEN Max(result, cases[i].type.alignment)
             ELSE result)

\* VariantType.maxCaseSize (lines 1601-1609)
RECURSIVE VariantType_maxCaseSize(_, _, _)
VariantType_maxCaseSize(cases, i, result) ==
    IF i > Len(cases) THEN result
    ELSE VariantType_maxCaseSize(cases, i + 1,
             IF cases[i].type # NoType THEN Max(result, cases[i].type.size) ELSE result)

\* VariantType.size (lines 1549-1553)
VariantType_size(discriminantType, cases) ==
    align(discriminantType.size, VariantType_maxCaseAlignment(cases, 1, 1))
        + VariantType_maxCaseSize(cases, 1, 0)

\* VariantType.alignment (lines 1555-1557)
VariantType_alignment(discriminantType, cases) ==
    Max(discriminantType.alignment, VariantType_maxCaseAlignment(cases, 1, 1))

\* a join that keeps whatever the earlier case asked for
joinFlatType_first(a, b) == a

\* VariantType.joinFlatType (lines 1611-1619)
joinFlatType(a, b) ==
    IF a = b THEN a
    ELSE IF (a = "i32" /\ b = "f32") \/ (a = "f32" /\ b = "i32") THEN "i32"
    ELSE "i64"

\* the inner loop of VariantType.flatTypes (lines 1565-1575): one case's types joined
\* into flat position by position, flat growing where the case is longer
joinCase(flat, flatTypes) ==
    [i \in 1..Max(Len(flat), Len(flatTypes)) |->
        IF i <= Len(flat) /\ i <= Len(flatTypes) THEN joinFlatType(flat[i], flatTypes[i])
        ELSE IF i <= Len(flat) THEN flat[i]
        ELSE flatTypes[i]]

\* the outer loop of VariantType.flatTypes (lines 1560-1577)
RECURSIVE joinCases(_, _, _)
joinCases(cases, i, flat) ==
    IF i > Len(cases) THEN flat
    ELSE joinCases(cases, i + 1,
             IF cases[i].type = NoType THEN flat
             ELSE joinCase(flat, cases[i].type.flatTypes))

\* a push of the joined type where the position is already in flat
wanted_use(flat, flatTypes, i) ==
    IF i <= Len(flat) THEN joinFlatType(flat[i], flatTypes[i]) ELSE flatTypes[i]

\* what the inner loop of VariantType.flatTypes pushes on c.wantFlatTypes at position i
\* (lines 1570 and 1573): want, in both branches
wanted(flat, flatTypes, i) == flatTypes[i]

\* the cases as VariantType.flatTypes leaves them: every case with a payload has had one
\* type pushed on its wantFlatTypes per position of its flat types, flat being the join
\* of the cases before it
RECURSIVE wantCases(_, _, _)
wantCases(cases, i, flat) ==
    IF i > Len(cases) THEN cases
    ELSE IF cases[i].type = NoType THEN wantCases(cases, i + 1, flat)
    ELSE wantCases([cases EXCEPT ![i].wantFlatTypes =
                       @ \o [k \in 1..Len(cases[i].type.flatTypes) |->
                                wanted(flat, cases[i].type.flatTypes, k)]],
                   i + 1, joinCase(flat, cases[i].type.flatTypes))

\* VariantType.flatTypes (lines 1559-1579)
VariantType_flatTypes(discriminantType, cases) ==
    discriminantType.flatTypes \o joinCases(cases, 1, << >>)

\* the VariantType constructor (lines 1443-1457); variants[i] is a descriptor or NoType
VariantType(variants) ==
    Strict(LAMBDA d :
        IF ~d.ok THEN d
        ELSE Strict(LAMBDA cases :
                 Ok([kind |-> "variant", cases |-> cases, discriminantType |-> d.val,
                     maxCaseAlignment |-> VariantType_maxCaseAlignment(cases, 1, 1),
                     size |-> VariantType_size(d.val, cases),
                     alignment |-> VariantType_alignment(d.val, cases),
                     flatTypes |-> VariantType_flatTypes(d.val, cases)]),
                 wantCases([i \in 1..Len(variants) |-> VariantCase_create(i - 1, variants[i])],
                           1, << >>)),
        VariantType_discriminantType(Len(variants)))

\* OptionType.computeSize (lines 1823-1827)
OptionType_computeSize(valueType) == align(u8.size, valueType.alignment) + valueType.size

\* OptionType.computeAlignment (lines 1829-1831)
OptionType_computeAlignment(valueType) == Max(u8.alignment, valueType.alignment)

\* OptionType.computeFlatTypes (lines 1833-1835)
OptionType_computeFlatTypes(valueType) == u8.flatTypes \o valueType.flatTypes

\* the OptionType constructor (lines 1744-1750)
OptionType(valueType) ==
    [kind |-> "option", valueType |-> valueType,
     size |-> OptionType_computeSize(valueType),
     alignment |-> OptionType_computeAlignment(valueType),
     flatTypes |-> OptionType_computeFlatTypes(valueType)]

(***************************************************************************)
(* Construction of every kind of descriptor over child descriptors.        *)
(***************************************************************************)
MaxCases == 3       \* most cases of a variant constructed

\* the children handed to a constructor: primitives, string, list and composites
ChildTypes ==
    {u8, u16, u32, u64, float32, float64, wstring, ListType(u8),
     TupleType(<<u8, u8, u8>>), TupleType(<<u64, float32>>), OptionType(u16),
     FlagsType(9)}

\* the entries of a variant's case list: a payload descriptor or none
CaseTypes ==
    {u8, u16, u64, float32, float64, wstring, TupleType(<<u8, u8, u8>>),
     TupleType(<<u64, float32>>), NoType}

\* a primitive, string or list descriptor is used as it is exported
UseType(t) ==
    /\ ~desc.done
    /\ desc' = [done |-> TRUE, types |-> << >>, type |-> t]
    /\ UNCHANGED <<mem, brk, options, stored, loaded, call, flagsObj, wire, disc>>

\* new VariantType(variants, ctor)
NewVariantType(variants) ==
    /\ ~desc.done
    /\ \E v \in {VariantType(variants)} :
          /\ v.ok
          /\ desc' = [done |-> TRUE, types |-> variants, type |-> v.val]
    /\ UNCHANGED <<mem, brk, options, stored, loaded, call, flagsObj, wire, disc>>

\* new OptionType(valueType)
NewOptionType(valueType) ==
    /\ ~desc.done
    /\ desc' = [done |-> TRUE, types |-> <<valueType>>, type |-> OptionType(valueType)]
    /\ UNCHANGED <<mem, brk, options, stored, loaded, call, flagsObj, wire, disc>>

\* new EnumType(values) with the given number of values
NewEnumType(cases) ==
    /\ ~desc.done
    /\ \E e \in {EnumType(cases)} :
          /\ e.ok
          /\ desc' = [done |-> TRUE, types |-> << >>, type |-> e.val]
    /\ UNCHANGED <<mem, brk, options, stored, loaded, call, flagsObj, wire, disc>>

\* new FlagsType(fields) with the given number of fields
NewFlagsType(nr) ==
    /\ ~desc.done
    /\ desc' = [done |-> TRUE, types |-> << >>, type |-> FlagsType(nr)]
    /\ UNCHANGED <<mem, brk, options, stored, loaded, call, flagsObj, wire, disc>>

NextDesc ==
    \/ \E t \in ChildTypes \cup {bool, s8, s16, s32, s64, wchar} : UseType(t)
    \/ \E types \in SeqsUpTo(ChildTypes, 2) : NewTuple(types)
    \/ \E types \in SeqsUpTo(ChildTypes, 2) : NewRecord(types)
    \/ \E variants \in SeqsUpTo(CaseTypes, MaxCases) : NewVariantType(variants)
    \/ \E valueType \in ChildTypes : NewOptionType(valueType)
    \/ \E cases \in {1, 2, 256, 257, 65536, 65537} : NewEnumType(cases)
    \/ \E nr \in {0, 1, 8, 9, 16, 17, 26} : NewFlagsType(nr)

SpecDesc == InitLayout /\ [][NextDesc]_vars

\* C13: every descriptor has alignment 1, 2, 4 or 8, and the alignment divides the size
\* whenever the size is at least the alignment.
C13_AlignmentDividesSize ==
    desc.done =>
        /\ desc.type.alignment \in {1, 2, 4, 8}
        /\ desc.type.size >= desc.type.alignment
              => desc.type.size % desc.type.alignment = 0

(***************************************************************************)
(* The flat types of a variant, position by position.                      *)
(***************************************************************************)
\* the flat types of the cases that carry a payload
PayloadFlatTypes(variants) ==
    {variants[i].flatTypes : i \in {j \in 1..Len(variants) : variants[j] # NoType}}

\* the types the cases need at slot position i
TypesAt(variants, i) == {ft[i] : ft \in {c \in PayloadFlatTypes(variants) : Len(c) >= i}}

\* the longest flat list of any case
RECURSIVE MaxFlatLength(_, _)
MaxFlatLength(variants, i) ==
    IF i > Len(variants) THEN 0
    ELSE Max(IF variants[i] = NoType THEN 0 ELSE Len(variants[i].flatTypes),
             MaxFlatLength(variants, i + 1))

\* the sequences that order the entries of s differently
Reorderings(s) ==
    {[i \in 1..Len(s) |-> s[p[i]]] :
        p \in {q \in [1..Len(s) -> 1..Len(s)] : \A i, j \in 1..Len(s) : q[i] = q[j] => i = j}}

\* C15: a variant's flat types are the discriminant's flat types followed by one slot
\* per position any case needs; each slot is the common type of the cases at that
\* position, i32 where they are exactly i32 and f32, and i64 otherwise; declaring the
\* cases in another order gives the same flat types.
C15_FlatTypesJoin ==
    (desc.done /\ desc.type.kind = "variant") =>
        LET flat == desc.type.flatTypes
            n == MaxFlatLength(desc.types, 1)
        IN  /\ Len(flat) = 1 + n
            /\ SubSeq(flat, 1, 1) = desc.type.discriminantType.flatTypes
            /\ \A i \in 1..n :
                  flat[1 + i] = IF Cardinality(TypesAt(desc.types, i)) = 1
                                THEN CHOOSE t \in TypesAt(desc.types, i) : TRUE
                                ELSE IF TypesAt(desc.types, i) = {"i32", "f32"} THEN "i32"
                                ELSE "i64"
            /\ \A r \in Reorderings(desc.types) : VariantType(r).val.flatTypes = flat

\* C15 (witness): a variant of three cases of different flat lengths, one position
\* needing exactly i32 and f32 and another one i64 next to a narrower type
C15_Witness ==
    /\ desc.done
    /\ desc.type.kind = "variant"
    /\ Len(desc.types) = 3
    /\ Cardinality({Len(ft) : ft \in PayloadFlatTypes(desc.types)}) = 3
    /\ TypesAt(desc.types, 1) = {"i32", "f32", "i64"}
    /\ TypesAt(desc.types, 2) = {"i32", "f32"}
    /\ desc.type.flatTypes = <<"i32", "i64", "i32", "i32">>

(***************************************************************************)
(* Variant values: load, liftFlat, store and lowerFlat of VariantType.     *)
(* A native variant value is what ctor(caseIndex, value) builds; undefined *)
(* is the flag of a value that is undefined.                               *)
(***************************************************************************)
ctor(caseIndex, value) == [case |-> caseIndex, undefined |-> FALSE, value |-> value]
ctorUndefined(caseIndex) == [case |-> caseIndex, undefined |-> TRUE, value |-> 0]

\* a value of another flat type than the integer ones, reinterpreted (lines 64-100)
Reinterpreted(have, want, value) == [have |-> have, want |-> want, bits |-> value]

\* a conversion that hands the slot over as it is
coerce_asIs(have, want, value) == value

\* CoerceValueIter.next (lines 116-135): the conversion of one slot from the joined
\* type to the type the case wants; convert_i64_to_i32 is Number(bigint) (lines 74-76)
coerce(have, want, value) ==
    IF have = "i32" /\ want = "f32" THEN Reinterpreted(have, want, value)
    ELSE IF have = "i64" /\ want = "i32" THEN Num(value.v)
    ELSE IF have = "i64" /\ want = "f32" THEN Reinterpreted(have, want, value)
    ELSE IF have = "i64" /\ want = "f64" THEN Reinterpreted(have, want, value)
    ELSE value

\* the stream a CoerceValueIter (lines 105-136) hands to the case's liftFlat: slot i of
\* the underlying stream converted from haveFlatTypes[i] to wantFlatTypes[i]; beyond
\* wantFlatTypes both types are undefined and the slot passes unchanged
CoerceValueIter(values, haveFlatTypes, wantFlatTypes) ==
    [i \in 1..Len(values) |->
        IF i <= Len(wantFlatTypes) THEN coerce(haveFlatTypes[i], wantFlatTypes[i], values[i])
        ELSE values[i]]

\* values.next() called n times on the stream
RECURSIVE readOver(_, _)
readOver(values, n) == IF n <= 0 THEN values ELSE readOver(advance(values), n - 1)

\* VariantType.load (lines 1459-1470); cases[caseIndex] of an index past the cases is
\* undefined and reading its type throws a TypeError
VariantType_load(m, ptr, t, opts) ==
    Strict(LAMBDA caseIndex :
        IF ~caseIndex.ok THEN caseIndex
        ELSE IF caseIndex.val >= Len(t.cases) THEN Err("TypeError")
        ELSE IF t.cases[caseIndex.val + 1].type = NoType
        THEN Ok(ctorUndefined(caseIndex.val))
        ELSE Strict(LAMBDA value : IF value.ok THEN Ok(ctor(caseIndex.val, value.val))
                                   ELSE value,
                    load(m, align(ptr + t.discriminantType.size, t.maxCaseAlignment),
                         t.cases[caseIndex.val + 1].type, opts)),
        load(m, ptr, t.discriminantType, opts))

\* VariantType.liftFlat (lines 1472-1492)
VariantType_liftFlat(m, t, values, opts) ==
    Strict(LAMBDA caseIndex :
        IF ~caseIndex.ok THEN caseIndex
        ELSE IF caseIndex.val >= Len(t.cases) THEN LiftError("TypeError", caseIndex.rest)
        ELSE IF t.cases[caseIndex.val + 1].type = NoType
        THEN Lifted(ctorUndefined(caseIndex.val),
                    readOver(caseIndex.rest, Len(t.flatTypes) - 1))
        ELSE Strict(LAMBDA value :
                 \* the slots the case's liftFlat pulled were pulled from the stream
                 Strict(LAMBDA rest :
                     IF ~value.ok THEN LiftError(value.err, rest)
                     ELSE Lifted(ctor(caseIndex.val, value.val),
                                 readOver(rest, (Len(t.flatTypes) - 1)
                                     - Len(t.cases[caseIndex.val + 1].wantFlatTypes))),
                     SubSeq(caseIndex.rest,
                            (Len(caseIndex.rest) - Len(value.rest)) + 1,
                            Len(caseIndex.rest))),
                 liftFlat(m, t.cases[caseIndex.val + 1].type,
                          CoerceValueIter(caseIndex.rest, Tail(t.flatTypes),
                                          t.cases[caseIndex.val + 1].wantFlatTypes),
                          opts)),
        liftFlat(m, t.discriminantType, values, opts))

\* VariantType.store (lines 1498-1506)
VariantType_store(st, ptr, t, variantValue, opts, sl) ==
    Strict(LAMBDA s1 :
        IF s1.err # "" THEN s1
        ELSE IF t.cases[variantValue.case + 1].type # NoType /\ ~variantValue.undefined
        THEN store(s1, align(ptr + t.discriminantType.size, t.maxCaseAlignment),
                   t.cases[variantValue.case + 1].type, variantValue.value, opts, sl)
        ELSE s1,
        store(st, ptr, t.discriminantType, variantValue.case, opts, sl))

\* a widening that leaves the slot as the case lowered it
widen_asIs(have, want, value) == value

\* the widening of one payload slot in VariantType.lowerFlat (lines 1525-1535);
\* convert_i32_to_i64 is BigInt(number) (lines 78-80)
widen(have, want, value) ==
    IF have = "f32" /\ want = "i32" THEN Reinterpreted(have, want, value)
    ELSE IF have = "i32" /\ want = "i64" THEN Big(value.v)
    ELSE IF have = "f32" /\ want = "i64" THEN Reinterpreted(have, want, value)
    ELSE IF have = "f64" /\ want = "i64" THEN Reinterpreted(have, want, value)
    ELSE value

\* padding that fills every unused slot with the number 0
padding_number(flatTypes, valuesToFill) == [i \in 1..valuesToFill |-> Num(0)]

\* the trailing loop of VariantType.lowerFlat (lines 1539-1546): 0n for an i64 slot, 0
\* for any other, for the last valuesToFill slots of flatTypes
padding(flatTypes, valuesToFill) ==
    [i \in 1..valuesToFill |->
        IF flatTypes[(Len(flatTypes) - valuesToFill) + i] = "i64" THEN Big(0) ELSE Num(0)]

\* VariantType.lowerFlat (lines 1508-1547)
VariantType_lowerFlat(ls, t, variantValue, opts, sl) ==
    Strict(LAMBDA l1 :
        IF l1.st.err # "" THEN l1
        ELSE IF t.cases[variantValue.case + 1].type # NoType /\ ~variantValue.undefined
        THEN Strict(LAMBDA payload :
                 IF payload.st.err # "" THEN Lowering(l1.out, payload.st)
                 ELSE IF Len(payload.out) # Len(t.cases[variantValue.case + 1].wantFlatTypes)
                 THEN fail(Lowering(l1.out, payload.st), "Mismatched flat types")
                 ELSE Lowering(
                        l1.out
                          \o [i \in 1..Len(payload.out) |->
                                widen(t.cases[variantValue.case + 1].wantFlatTypes[i],
                                      t.flatTypes[i + 1], payload.out[i])]
                          \o padding(t.flatTypes,
                                     (Len(t.flatTypes) - 1) - Len(payload.out)),
                        payload.st),
                 lowerFlat(Lowering(<< >>, l1.st), t.cases[variantValue.case + 1].type,
                           variantValue.value, opts, sl))
        ELSE Lowering(l1.out \o padding(t.flatTypes, Len(t.flatTypes) - 1), l1.st),
        lowerFlat(ls, t.discriminantType, variantValue.case, opts, sl))

(***************************************************************************)
(* A variant descriptor is constructed; a value of it is stored and loaded *)
(* again, or lowered and lifted again.                                     *)
(***************************************************************************)
VariantMemBytes == 32   \* bytes of linear memory holding variants
MaxVariantCases == 2    \* most cases of a variant whose values are marshaled

\* payload descriptors of the cases: integers of every width, tuples, or none
VariantCaseTypes ==
    {u8, s8, u16, u32, u64, TupleType(<<u8, u16>>), TupleType(<<u8, u64>>),
     TupleType(<<u64, s8>>), NoType}

\* native payload values of a descriptor
RECURSIVE PayloadValues(_)
PayloadValues(t) ==
    IF t.kind = "u8" THEN {0, 255}
    ELSE IF t.kind = "s8" THEN {0 - 1, 127}
    ELSE IF t.kind = "u16" THEN {65535}
    ELSE IF t.kind = "u32" THEN {1, 16777216}
    ELSE IF t.kind = "u64" THEN {0, 2147483647}
    ELSE IF Len(t.fields) = 0 THEN {<< >>}
    ELSE {<<a>> \o b : a \in PayloadValues(t.fields[1].type),
                       b \in PayloadValues(TupleType([i \in 1..(Len(t.fields) - 1) |->
                                                         t.fields[i + 1].type]))}

\* the native values of a variant descriptor: case caseIndex with one of its payloads,
\* or with none where the case has no type
CasePayloads(t, caseIndex) ==
    IF t.cases[caseIndex + 1].type = NoType THEN {0}
    ELSE PayloadValues(t.cases[caseIndex + 1].type)
VariantValue(t, caseIndex, v) ==
    IF t.cases[caseIndex + 1].type = NoType THEN ctorUndefined(caseIndex)
    ELSE ctor(caseIndex, v)

\* the cases of the descriptor constructed so far
CurrentCases == IF desc.done THEN 0..(Len(desc.type.cases) - 1) ELSE {}

InitVariant ==
    /\ mem = [a \in 0..(VariantMemBytes - 1) |-> 0]
    /\ brk = 0
    /\ options = [encoding |-> "utf-8", keepOption |-> FALSE]
    /\ stored = Idle
    /\ loaded = Idle
    /\ desc = Idle
    /\ call = Idle
    /\ flagsObj = Idle
    /\ wire = Idle
    /\ disc = Idle

\* the addresses a store writes: those that differ afterwards in a memory of zeros or in
\* a memory of 255s
Written(st0, st1) ==
    {a \in DOMAIN st0.mem : st0.mem[a] # 0 \/ st1.mem[a] # 255}

\* ptr = T.alloc(memory); T.store(memory, ptr, variantValue, options)
StoreVariant(caseIndex, payload, sl) ==
    /\ desc.done
    /\ ~stored.done
    /\ ~wire.done
    /\ \E a \in {alloc(MemState(mem, brk), desc.type.alignment, desc.type.size, sl)} :
       \E v \in {VariantValue(desc.type, caseIndex, payload)} :
         \E st \in {VariantType_store(a.st, a.ptr, desc.type, v, options, sl)} :
           \E ones \in {VariantType_store(
                            MemState([x \in DOMAIN mem |-> 255], a.st.brk), a.ptr,
                            desc.type, v, options, sl)} :
             /\ mem' = st.mem
             /\ brk' = st.brk
             /\ stored' = [done |-> TRUE, ptr |-> a.ptr, value |-> v, err |-> st.err,
                           written |-> Written(st, ones)]
    /\ UNCHANGED <<options, loaded, desc, call, flagsObj, wire, disc>>

\* T.load(memory, ptr, options) at the pointer of the store
LoadVariant ==
    /\ stored.done
    /\ stored.err = ""
    /\ ~loaded.done
    /\ loaded' = [done |-> TRUE, res |-> VariantType_load(mem, stored.ptr, desc.type, options)]
    /\ UNCHANGED <<mem, brk, options, stored, desc, call, flagsObj, wire, disc>>

\* T.lowerFlat(result, memory, variantValue, options) into an empty result
LowerVariant(caseIndex, payload) ==
    /\ desc.done
    /\ ~stored.done
    /\ ~wire.done
    /\ \E v \in {VariantValue(desc.type, caseIndex, payload)} :
        \E ls \in {VariantType_lowerFlat(Lowering(<< >>, MemState(mem, brk)), desc.type, v,
                                        options, 0)} :
          /\ mem' = ls.st.mem
          /\ brk' = ls.st.brk
          /\ wire' = [done |-> TRUE, value |-> v, out |-> ls.out, err |-> ls.st.err]
    /\ UNCHANGED <<options, stored, loaded, desc, call, flagsObj, disc>>

\* T.liftFlat(memory, values, options) over the lowered slots, which the slot of the
\* next parameter follows in the stream
LiftVariant(following) ==
    /\ wire.done
    /\ wire.err = ""
    /\ ~loaded.done
    /\ loaded' = [done |-> TRUE, following |-> following,
                  res |-> VariantType_liftFlat(mem, desc.type, wire.out \o <<following>>,
                                               options)]
    /\ UNCHANGED <<mem, brk, options, stored, desc, call, flagsObj, wire, disc>>

NextVariant ==
    \/ \E variants \in SeqsUpTo(VariantCaseTypes, MaxVariantCases) : NewVariantType(variants)
    \/ \E caseIndex \in CurrentCases : \E payload \in CasePayloads(desc.type, caseIndex) :
          \E sl \in 0..MaxSlack : StoreVariant(caseIndex, payload, sl)
    \/ LoadVariant
    \/ \E caseIndex \in CurrentCases : \E payload \in CasePayloads(desc.type, caseIndex) :
          LowerVariant(caseIndex, payload)
    \/ \E following \in {Num(7), Big(7)} : LiftVariant(following)

SpecVariant == InitVariant /\ [][NextVariant]_vars

\* the largest number of a non-empty set
SetMax(S) == CHOOSE x \in S : \A y \in S : y <= x

\* the payload descriptors of a case list
PayloadTypes(variants) == {variants[i] : i \in {j \in 1..Len(variants) : variants[j] # NoType}}

\* the offset of the payload region: the discriminant's size rounded up to the largest
\* alignment of any case
PayloadOffset(t, variants) ==
    align(t.discriminantType.size,
          SetMax({1} \cup {c.alignment : c \in PayloadTypes(variants)}))

\* C16: a variant's size is align(discriminant.size, max_case_alignment) plus the
\* largest payload size and its alignment the larger of the discriminant's and the
\* largest case alignment; a store at an aligned ptr writes the payload at ptr +
\* align(discriminant.size, max_case_alignment) and only bytes of [ptr, ptr + size);
\* the load that follows returns the same case and payload.
C16_VariantLayout ==
    (desc.done /\ desc.type.kind = "variant") =>
        LET t == desc.type
            at == PayloadOffset(t, desc.types)
        IN  /\ t.size = at + SetMax({0} \cup {c.size : c \in PayloadTypes(desc.types)})
            /\ t.alignment
                 = Max(t.discriminantType.alignment,
                       SetMax({1} \cup {c.alignment : c \in PayloadTypes(desc.types)}))
            /\ stored.done =>
                 /\ stored.err = ""
                 /\ stored.ptr % t.alignment = 0
                 /\ \A a \in stored.written : stored.ptr <= a /\ a < stored.ptr + t.size
                 /\ ~stored.value.undefined =>
                       load(mem, stored.ptr + at, desc.types[stored.value.case + 1], options)
                         = Ok(stored.value.value)
            /\ (stored.done /\ loaded.done) => loaded.res = Ok(stored.value)

\* C16 for the variants whose payloads are primitives: the same statement where no
\* case is a record or tuple
C16_PrimitivePayloads ==
    (desc.done /\ \A i \in 1..Len(desc.types) :
                     desc.types[i] # NoType => desc.types[i].kind \notin {"tuple", "record"})
        => C16_VariantLayout

\* the slots the payload of the lowered value has when its case lowers it alone
PayloadSlots(t, variantValue) ==
    IF variantValue.undefined THEN << >>
    ELSE lowerFlat(Lowering(<< >>, MemState(mem, brk)), t.cases[variantValue.case + 1].type,
                   variantValue.value, options, 0).out

\* C14: lowering a variant value appends exactly |flat_types| slots: the discriminant,
\* the payload's slots as numbers of the joined types (a bigint where the joined type is
\* i64), then 0n for every unused i64 slot and 0 for every other unused slot; lifting
\* those slots returns the same case and payload and leaves the stream right behind them.
C14_VariantFlatRoundTrip ==
    (desc.done /\ wire.done) =>
        LET t == desc.type
            payload == PayloadSlots(t, wire.value)
        IN  /\ wire.err = ""
            /\ Len(wire.out) = Len(t.flatTypes)
            /\ wire.out[1] = Num(wire.value.case)
            /\ \A i \in 1..(Len(t.flatTypes) - 1) :
                  /\ wire.out[i + 1].big = (t.flatTypes[i + 1] = "i64")
                  /\ wire.out[i + 1].v = IF i <= Len(payload) THEN payload[i].v ELSE 0
            /\ loaded.done =>
                  /\ loaded.res.ok
                  /\ loaded.res.val = wire.value
                  /\ loaded.res.rest = <<loaded.following>>

\* C14 (witness): a value whose payload has fewer slots than the variant, one of them
\* widened from i32 to i64, lowered with padding and lifted again
C14_Witness ==
    /\ desc.done
    /\ wire.done
    /\ loaded.done
    /\ loaded.res.ok
    /\ ~wire.value.undefined
    /\ Len(PayloadSlots(desc.type, wire.value)) < Len(desc.type.flatTypes) - 1
    /\ \E i \in 1..Len(PayloadSlots(desc.type, wire.value)) :
          /\ ~PayloadSlots(desc.type, wire.value)[i].big
          /\ wire.out[i + 1].big

(***************************************************************************)
(* Options (OptionType).  A native value is an OptionImpl (isOption) with  *)
(* its case and value, or a plain value of the value type, or undefined.   *)
(***************************************************************************)
option_none == 0
option_some == 1

\* option._ctor(c, v) (lines 1688-1690); undefined is the flag of v === undefined
option_ctor(c, undefined, v) ==
    [isOption |-> TRUE, case |-> c, undefined |-> undefined, value |-> v]
\* a plain native value and the native undefined
Plain(v) == [isOption |-> FALSE, case |-> option_some, undefined |-> FALSE, value |-> v]
Absent == [isOption |-> FALSE, case |-> option_none, undefined |-> TRUE, value |-> 0]

\* a conversion that takes either representation whatever the options say
asOptionValue_lenient(value, opts) ==
    IF value.isOption THEN Ok(value)
    ELSE IF value.undefined THEN Ok(option_ctor(option_none, TRUE, 0))
    ELSE Ok(option_ctor(option_some, FALSE, value.value))

\* OptionType.asOptionValue (lines 1809-1821)
asOptionValue(value, opts) ==
    IF value.isOption
    THEN IF ~opts.keepOption
         THEN Err("Received an option value although options should be unpacked.")
         ELSE Ok(value)
    ELSE IF opts.keepOption
    THEN Err("Received a unpacked option value although options should NOT be unpacked.")
    ELSE IF value.undefined THEN Ok(option_ctor(option_none, TRUE, 0))
    ELSE Ok(option_ctor(option_some, FALSE, value.value))

\* OptionType.load (lines 1752-1762)
OptionType_load(m, ptr, t, opts) ==
    Strict(LAMBDA caseIndex :
        IF ~caseIndex.ok THEN caseIndex
        ELSE IF caseIndex.val = option_none
        THEN Ok(IF opts.keepOption THEN option_ctor(option_none, TRUE, 0) ELSE Absent)
        ELSE Strict(LAMBDA value :
                 IF ~value.ok THEN value
                 ELSE Ok(IF opts.keepOption THEN option_ctor(option_some, FALSE, value.val)
                         ELSE Plain(value.val)),
                 load(m, align(ptr + u8.size, t.alignment), t.valueType, opts)),
        load(m, ptr, u8, opts))

\* OptionType.liftFlat (lines 1764-1777)
OptionType_liftFlat(m, t, values, opts) ==
    Strict(LAMBDA caseIndex :
        IF ~caseIndex.ok THEN caseIndex
        ELSE IF caseIndex.val = option_none
        THEN Lifted(IF opts.keepOption THEN option_ctor(option_none, TRUE, 0) ELSE Absent,
                    readOver(caseIndex.rest, Len(t.valueType.flatTypes)))
        ELSE Strict(LAMBDA value :
                 IF ~value.ok THEN value
                 ELSE Lifted(IF opts.keepOption
                             THEN option_ctor(option_some, FALSE, value.val)
                             ELSE Plain(value.val),
                             value.rest),
                 liftFlat(m, t.valueType, caseIndex.rest, opts)),
        liftFlat(m, u8, values, opts))

\* OptionType.store (lines 1783-1791)
OptionType_store(st, ptr, t, value, opts, sl) ==
    Strict(LAMBDA optValue :
        IF ~optValue.ok THEN Throw(st, optValue.err)
        ELSE Strict(LAMBDA s1 :
                 IF s1.err # "" \/ optValue.val.case # option_some THEN s1
                 ELSE store(s1, align(ptr + u8.size, t.valueType.alignment), t.valueType,
                            optValue.val.value, opts, sl),
                 store(st, ptr, u8, optValue.val.case, opts, sl)),
        asOptionValue(value, opts))

\* OptionType.lowerFlat (lines 1793-1807)
OptionType_lowerFlat(ls, t, value, opts, sl) ==
    Strict(LAMBDA optValue :
        IF ~optValue.ok THEN fail(ls, optValue.err)
        ELSE Strict(LAMBDA l1 :
                 IF l1.st.err # "" THEN l1
                 ELSE IF optValue.val.case = option_none
                 THEN Lowering(l1.out \o [i \in 1..Len(t.valueType.flatTypes) |->
                                            IF t.valueType.flatTypes[i] = "i64" THEN Big(0)
                                            ELSE Num(0)],
                               l1.st)
                 ELSE lowerFlat(l1, t.valueType, optValue.val.value, opts, sl),
                 lowerFlat(ls, u8, optValue.val.case, opts, sl)),
        asOptionValue(value, opts))

(***************************************************************************)
(* An option descriptor is constructed under either setting of keepOption; *)
(* a tagged or untagged native value is stored and loaded again, or        *)
(* lowered behind earlier slots of the sink and lifted again.              *)
(***************************************************************************)
OptionMemBytes == 24    \* bytes of linear memory holding options

OptionValueTypes == {u8, s8, u16, u32, u64}

\* every native value a caller may hand over: tagged none and some, plain, undefined
OptionValues(t) ==
    {option_ctor(option_none, TRUE, 0), Absent}
        \cup {option_ctor(option_some, FALSE, v) : v \in PayloadValues(t.valueType)}
        \cup {Plain(v) : v \in PayloadValues(t.valueType)}

\* the values for the descriptor constructed so far
CurrentOptionValues == IF desc.done THEN OptionValues(desc.type) ELSE {}

\* the slots lowered into the sink before the option
EarlierSlots == <<Num(9)>>

InitOption ==
    /\ mem = [a \in 0..(OptionMemBytes - 1) |-> 0]
    /\ brk = 0
    /\ options \in [encoding : {"utf-8"}, keepOption : BOOLEAN]
    /\ stored = Idle
    /\ loaded = Idle
    /\ desc = Idle
    /\ call = Idle
    /\ flagsObj = Idle
    /\ wire = Idle
    /\ disc = Idle

\* ptr = T.alloc(memory); T.store(memory, ptr, value, options)
StoreOption(value, sl) ==
    /\ desc.done
    /\ ~stored.done
    /\ ~wire.done
    /\ \E a \in {alloc(MemState(mem, brk), desc.type.alignment, desc.type.size, sl)} :
         \E st \in {OptionType_store(a.st, a.ptr, desc.type, value, options, sl)} :
           \E ones \in {OptionType_store(
                            MemState([x \in DOMAIN mem |-> 255], a.st.brk), a.ptr,
                            desc.type, value, options, sl)} :
             /\ mem' = st.mem
             /\ brk' = st.brk
             /\ stored' = [done |-> TRUE, ptr |-> a.ptr, value |-> value, err |-> st.err,
                           written |-> Written(st, ones)]
    /\ UNCHANGED <<options, loaded, desc, call, flagsObj, wire, disc>>

\* T.load(memory, ptr, options) at the pointer of the store
LoadOption ==
    /\ stored.done
    /\ stored.err = ""
    /\ ~loaded.done
    /\ loaded' = [done |-> TRUE, res |-> OptionType_load(mem, stored.ptr, desc.type, options)]
    /\ UNCHANGED <<mem, brk, options, stored, desc, call, flagsObj, wire, disc>>

\* T.lowerFlat(result, memory, value, options) behind the earlier slots
LowerOption(value) ==
    /\ desc.done
    /\ ~stored.done
    /\ ~wire.done
    /\ \E ls \in {OptionType_lowerFlat(Lowering(EarlierSlots, MemState(mem, brk)), desc.type,
                                       value, options, 0)} :
          /\ mem' = ls.st.mem
          /\ brk' = ls.st.brk
          /\ wire' = [done |-> TRUE, value |-> value, out |-> ls.out, err |-> ls.st.err]
    /\ UNCHANGED <<options, stored, loaded, desc, call, flagsObj, disc>>

\* T.liftFlat(memory, values, options) over the slots the lowering appended
LiftOption ==
    /\ wire.done
    /\ wire.err = ""
    /\ ~loaded.done
    /\ loaded' = [done |-> TRUE,
                  res |-> OptionType_liftFlat(mem, desc.type,
                              SubSeq(wire.out, Len(EarlierSlots) + 1, Len(wire.out)),
                              options)]
    /\ UNCHANGED <<mem, brk, options, stored, desc, call, flagsObj, wire, disc>>

NextOption ==
    \/ \E valueType \in OptionValueTypes : NewOptionType(valueType)
    \/ \E value \in CurrentOptionValues : \E sl \in 0..MaxSlack : StoreOption(value, sl)
    \/ LoadOption
    \/ \E value \in CurrentOptionValues : LowerOption(value)
    \/ LiftOption

SpecOption == InitOption /\ [][NextOption]_vars

\* the policy and the received value disagree
Mismatch(value) == options.keepOption # value.isOption

\* what load and lift return for a value that went over the wire: a tagged value under
\* keepOption, otherwise the plain value for some and undefined for none
Returned(value) ==
    IF options.keepOption THEN value
    ELSE IF value.undefined THEN Absent ELSE Plain(value.value)

\* C17: under keepOption store and lower fail on an untagged value and load and lift
\* return a tagged value; without it store and lower fail on a tagged value, undefined
\* encodes as none, and load and lift return the plain value for some and undefined for
\* none; a failure on a mismatch leaves memory and the sink as they were.
C17_KeepOptionPolicy ==
    /\ stored.done =>
          /\ (stored.err # "") = Mismatch(stored.value)
          /\ Mismatch(stored.value) =>
                /\ stored.written = {}
                /\ mem = [a \in 0..(OptionMemBytes - 1) |-> 0]
          /\ (~Mismatch(stored.value) /\ stored.value.undefined) =>
                mem[stored.ptr] = option_none
          /\ loaded.done =>
                /\ loaded.res = Ok(Returned(stored.value))
                /\ loaded.res.val.isOption = options.keepOption
    /\ wire.done =>
          /\ (wire.err # "") = Mismatch(wire.value)
          /\ Mismatch(wire.value) =>
                /\ wire.out = EarlierSlots
                /\ mem = [a \in 0..(OptionMemBytes - 1) |-> 0]
          /\ (~Mismatch(wire.value) /\ wire.value.undefined) =>
                wire.out[Len(EarlierSlots) + 1] = Num(option_none)
          /\ loaded.done =>
                /\ loaded.res.ok
                /\ loaded.res.val = Returned(wire.value)
                /\ loaded.res.val.isOption = options.keepOption
                /\ loaded.res.rest = << >>

\* C17 (witness): under keepOption the store of an untagged value has failed and has
\* written nothing
C17_Witness ==
    /\ stored.done
    /\ options.keepOption
    /\ ~stored.value.isOption
    /\ ~stored.value.undefined
    /\ stored.err # ""
    /\ stored.written = {}

(***************************************************************************)
(* Flags of every storage: empty, a single u8 / u16 / u32 word, or an      *)
(* array of u32 words.  An array element is a number or a hole of the      *)
(* array (reading it yields undefined).  The words of the model stay below *)
(* 2^31 and the setter of a flag with mask 1 << 31 is not called.          *)
(***************************************************************************)
Hole == [hole |-> TRUE, v |-> 0]
Word(v) == [hole |-> FALSE, v |-> v]

\* Object.create(null), the flags value of an empty flags type
EmptyFlags == [empty |-> TRUE]

\* an array whose elements are all the number 0
newArray_zeros(length) == [i \in 1..length |-> Word(0)]

\* new Array(length) (line 1261): length holes
newArray(length) == [i \in 1..length |-> Hole]

\* FlagsType.createArray (lines 1354-1370): the accessors and the _bits property share
\* the array
createArray(bits) == [_bits |-> bits]

\* the set accessor of flag i of an array flags value: bits[index] |= mask and
\* bits[index] &= ~mask, where undefined counts as 0
setArrayFlag(flags, i, newVal) ==
    [flags EXCEPT !._bits[(i \div 32) + 1] =
        Word(IF newVal THEN bitOr(@.v, mask(i)) ELSE bitAndNot(@.v, mask(i)))]

\* FlagsType.create (lines 1254-1263)
Flags_create(t) ==
    IF t.type.storage = "Empty" THEN EmptyFlags
    ELSE IF t.type.storage = "Single" THEN createSingle(0)
    ELSE createArray(newArray(num32Flags(t.nr)))

\* the loop of FlagsType.load (lines 1273-1279)
RECURSIVE loadWords(_, _, _, _, _, _)
loadWords(m, ptr, t, opts, i, bits) ==
    IF i > num32Flags(t.nr) THEN Ok(createArray(bits))
    ELSE Strict(LAMBDA r : IF ~r.ok THEN r
                           ELSE loadWords(m, ptr + t.type.type.size, t, opts, i + 1,
                                          Append(bits, Word(r.val))),
                load(m, ptr, t.type.type, opts))

\* FlagsType.load (lines 1265-1281)
Flags_load(t, m, ptr, opts) ==
    IF t.type.storage = "Empty" THEN Ok(EmptyFlags)
    ELSE IF t.type.storage = "Single"
    THEN Strict(LAMBDA r : IF r.ok THEN Ok(createSingle(r.val)) ELSE r,
                load(m, ptr, t.type.type, opts))
    ELSE loadWords(m, ptr, t, opts, 1, << >>)

\* the loop of FlagsType.liftFlat (lines 1292-1295)
RECURSIVE liftWords(_, _, _, _, _, _)
liftWords(m, t, values, opts, i, bits) ==
    IF i > num32Flags(t.nr) THEN Lifted(createArray(bits), values)
    ELSE Strict(LAMBDA r : IF ~r.ok THEN r
                           ELSE liftWords(m, t, r.rest, opts, i + 1,
                                          Append(bits, Word(r.val))),
                liftFlat(m, t.type.type, values, opts))

\* FlagsType.liftFlat (lines 1283-1298)
Flags_liftFlat(t, m, values, opts) ==
    IF t.type.storage = "Empty" THEN Lifted(EmptyFlags, values)
    ELSE IF t.type.storage = "Single"
    THEN Strict(LAMBDA r : IF r.ok THEN Lifted(createSingle(r.val), r.rest) ELSE r,
                liftFlat(m, t.type.type, values, opts))
    ELSE liftWords(m, t, values, opts, 1, << >>)

\* the loop of FlagsType.store (lines 1311-1315) over flags._bits; setUint32 of undefined
\* writes 0
RECURSIVE storeWords(_, _, _, _, _, _)
storeWords(st, ptr, t, bits, opts, i) ==
    IF i > Len(bits) \/ st.err # "" THEN st
    ELSE storeWords(store(st, ptr, t.type.type, bits[i].v, opts, 0),
                    ptr + t.type.type.size, t, bits, opts, i + 1)

\* FlagsType.store (lines 1303-1318)
Flags_store(t, st, ptr, flags, opts) ==
    IF t.type.storage = "Empty" THEN st
    ELSE IF t.type.storage = "Single" THEN store(st, ptr, t.type.type, flags._bits, opts, 0)
    ELSE storeWords(st, ptr, t, flags._bits, opts, 1)

\* the loop of FlagsType.lowerFlat (lines 1328-1331) over flags._bits; $u32.lowerFlat
\* (lines 318-323) throws on undefined, which is not an integer
RECURSIVE lowerWords(_, _, _, _, _)
lowerWords(ls, t, bits, opts, i) ==
    IF i > Len(bits) \/ ls.st.err # "" THEN ls
    ELSE lowerWords(IF bits[i].hole THEN fail(ls, "Invalid u32 value undefined")
                    ELSE lowerFlat(ls, t.type.type, bits[i].v, opts, 0),
                    t, bits, opts, i + 1)

\* FlagsType.lowerFlat (lines 1320-1334)
Flags_lowerFlat(t, ls, flags, opts) ==
    IF t.type.storage = "Empty" THEN ls
    ELSE IF t.type.storage = "Single" THEN lowerFlat(ls, t.type.type, flags._bits, opts, 0)
    ELSE lowerWords(ls, t, flags._bits, opts, 1)

(***************************************************************************)
(* A flags value of any width is created, loaded or lifted, a setter is    *)
(* called, and the value is stored or lowered.                             *)
(***************************************************************************)
WideMemBytes == 16      \* bytes of linear memory holding flags words

\* counts of names on both sides of every storage boundary
WideCounts == {0, 1, 8, 9, 16, 17, 32, 33, 64, 65}

\* the slots of the stream behind the flags
Following == <<Num(7)>>

InitWide ==
    /\ mem \in {[a \in 0..(WideMemBytes - 1) |-> 0], [a \in 0..(WideMemBytes - 1) |-> a + 1]}
    /\ brk = 0
    /\ options = [encoding |-> "utf-8", keepOption |-> FALSE]
    /\ stored = Idle
    /\ loaded = Idle
    /\ desc = Idle
    /\ call = Idle
    /\ flagsObj = Idle
    /\ wire = Idle
    /\ disc = Idle

\* flags = T.create(); returned keeps what the call returned, before any setter is called
CreateWide(nr) ==
    /\ ~flagsObj.done
    /\ \E r \in {Ok(Flags_create(FlagsType(nr)))} :
         flagsObj' = [done |-> TRUE, type |-> FlagsType(nr), from |-> "create",
                      res |-> r, returned |-> r, rest |-> << >>, tight |-> TRUE]
    /\ UNCHANGED <<mem, brk, options, stored, loaded, desc, call, wire, disc>>

\* flags = T.load(memory, 0, options); tight tells whether the load also succeeds on a
\* memory that ends with the last byte of the flags
LoadWide(nr) ==
    /\ ~flagsObj.done
    /\ \E r \in {Flags_load(FlagsType(nr), mem, 0, options)} :
         flagsObj' = [done |-> TRUE, type |-> FlagsType(nr), from |-> "load",
                      res |-> r, returned |-> r, rest |-> << >>,
                      tight |-> Flags_load(FlagsType(nr),
                                           [a \in 0..(FlagsType(nr).size - 1) |-> mem[a]],
                                           0, options).ok]
    /\ UNCHANGED <<mem, brk, options, stored, loaded, desc, call, wire, disc>>

\* flags = T.liftFlat(memory, values, options) on a stream of words and what follows
LiftWide(nr, w) ==
    /\ ~flagsObj.done
    /\ \E r \in {Flags_liftFlat(FlagsType(nr), mem,
                                [i \in 1..num32Flags(nr) |-> Num(w + i)] \o Following,
                                options)} :
         \E res \in {IF r.ok THEN Ok(r.val) ELSE Err(r.err)} :
           flagsObj' = [done |-> TRUE, type |-> FlagsType(nr), from |-> "lift",
                        res |-> res, returned |-> res, rest |-> r.rest, tight |-> TRUE]
    /\ UNCHANGED <<mem, brk, options, stored, loaded, desc, call, wire, disc>>

\* flags.<name of flag i> = newVal on an array flags value
SetWide(i, newVal) ==
    /\ flagsObj.done
    /\ ~wire.done
    /\ flagsObj.res.ok
    /\ flagsObj.type.type.storage = "Array"
    /\ i < flagsObj.type.nr
    /\ flagsObj' = [flagsObj EXCEPT !.res.val = setArrayFlag(@, i, newVal)]
    /\ UNCHANGED <<mem, brk, options, stored, loaded, desc, call, wire, disc>>

\* T.store(memory, 0, flags, options)
StoreWide ==
    /\ flagsObj.done
    /\ flagsObj.res.ok
    /\ ~wire.done
    /\ \E st \in {Flags_store(flagsObj.type, MemState(mem, brk), 0, flagsObj.res.val,
                              options)} :
         \E ones \in {Flags_store(flagsObj.type, MemState([x \in DOMAIN mem |-> 255], brk),
                                  0, flagsObj.res.val, options)} :
           \E zeros \in {Flags_store(flagsObj.type, MemState([x \in DOMAIN mem |-> 0], brk),
                                     0, flagsObj.res.val, options)} :
             /\ mem' = st.mem
             /\ wire' = [done |-> TRUE, op |-> "store", err |-> st.err, out |-> << >>,
                         written |-> Written(zeros, ones)]
    /\ UNCHANGED <<brk, options, stored, loaded, desc, call, flagsObj, disc>>

\* T.lowerFlat(result, memory, flags, options) into an empty result
LowerWide ==
    /\ flagsObj.done
    /\ flagsObj.res.ok
    /\ ~wire.done
    /\ \E ls \in {Flags_lowerFlat(flagsObj.type, Lowering(<< >>, MemState(mem, brk)),
                                  flagsObj.res.val, options)} :
         wire' = [done |-> TRUE, op |-> "lower", err |-> ls.st.err, out |-> ls.out,
                  written |-> {}]
    /\ UNCHANGED <<mem, brk, options, stored, loaded, desc, call, flagsObj, disc>>

NextWide ==
    \/ \E nr \in WideCounts : CreateWide(nr)
    \/ \E nr \in WideCounts : LoadWide(nr)
    \/ \E nr \in WideCounts : \E w \in {0, 100} : LiftWide(nr, w)
    \/ \E i \in {0, 32, 64} : \E newVal \in BOOLEAN : SetWide(i, newVal)
    \/ StoreWide
    \/ LowerWide

SpecWide == InitWide /\ [][NextWide]_vars

\* ceil(n / 32)
CeilDiv32(n) == (n + 31) \div 32

\* C18: a flags descriptor of n names has size 0, alignment 1 and no flat slot for
\* n = 0; size 1, alignment 1 for n <= 8; size 2, alignment 2 for n <= 16; size 4,
\* alignment 4 for n <= 32, each with one i32 slot; size 4 * ceil(n / 32), alignment 4
\* and ceil(n / 32) i32 slots beyond; load reads and store writes exactly size bytes,
\* lift reads and lower writes exactly that many slots.
C18_FlagsWidth ==
    flagsObj.done =>
        LET t == flagsObj.type
            n == flagsObj.type.nr
        IN  /\ t.size = IF n = 0 THEN 0 ELSE IF n <= 8 THEN 1 ELSE IF n <= 16 THEN 2
                        ELSE IF n <= 32 THEN 4 ELSE 4 * CeilDiv32(n)
            /\ t.alignment = IF n <= 8 THEN 1 ELSE IF n <= 16 THEN 2 ELSE 4
            /\ t.flatTypes = [i \in 1..(IF n = 0 THEN 0 ELSE CeilDiv32(n)) |-> "i32"]
            /\ flagsObj.res.ok
            /\ flagsObj.tight
            /\ flagsObj.from = "lift" => flagsObj.rest = Following
            /\ (flagsObj.from = "load" /\ ~wire.done /\ t.type.storage = "Array") =>
                  \A i \in 1..CeilDiv32(n) :
                      flagsObj.returned.val._bits[i] = Word(getLE(mem, 4 * (i - 1), 4))
            /\ (flagsObj.from = "load" /\ ~wire.done /\ t.type.storage = "Single") =>
                  flagsObj.returned.val._bits = getLE(mem, 0, t.size)
            /\ wire.done =>
                  /\ wire.err = ""
                  /\ wire.op = "store" => wire.written = 0..(t.size - 1)
                  /\ wire.op = "lower" => Len(wire.out) = Len(t.flatTypes)

\* C18 for the flags values whose words are all numbers: the same statement where no
\* element of an array flags value is a hole
C18_WordsDefined ==
    (flagsObj.done /\ flagsObj.res.ok /\ flagsObj.type.type.storage = "Array"
         /\ \E i \in 1..Len(flagsObj.res.val._bits) : flagsObj.res.val._bits[i].hole)
      \/ C18_FlagsWidth

(***************************************************************************)
(* The allocation of a string body.  A string is stored behind a header    *)
(* allocated by the caller, or lowered; allocs keeps the arguments of      *)
(* every call of Memory.alloc.                                             *)
(***************************************************************************)
StringMemBytes == 24    \* bytes of linear memory holding headers and string bodies

InitString ==
    /\ mem = [a \in 0..(StringMemBytes - 1) |-> 0]
    /\ brk \in 0..1
    /\ options \in [encoding : {"utf-8", "utf-16"}, keepOption : {FALSE}]
    /\ stored = Idle
    /\ loaded = Idle
    /\ desc = Idle
    /\ call = Idle
    /\ flagsObj = Idle
    /\ wire = Idle
    /\ disc = Idle

\* ptr = wstring.alloc(memory); wstring.store(memory, ptr, str, options)
StoreString(str, sl) ==
    /\ ~stored.done
    /\ \E a \in {alloc(MemState(mem, brk), wstring.alignment, wstring.size, sl)} :
         \E st \in {store(a.st, a.ptr, wstring, str, options, sl)} :
           /\ st.brk <= byteLength(mem)
           /\ mem' = st.mem
           /\ brk' = st.brk
           /\ stored' = [done |-> TRUE, op |-> "store", value |-> str, err |-> st.err,
                         allocs |-> Tail(st.allocs)]
    /\ UNCHANGED <<options, loaded, desc, call, flagsObj, wire, disc>>

\* wstring.lowerFlat(result, memory, str, options)
LowerString(str, sl) ==
    /\ ~stored.done
    /\ \E ls \in {lowerFlat(Lowering(<< >>, MemState(mem, brk)), wstring, str, options, sl)} :
         /\ ls.st.brk <= byteLength(mem)
         /\ mem' = ls.st.mem
         /\ brk' = ls.st.brk
         /\ stored' = [done |-> TRUE, op |-> "lower", value |-> str, err |-> ls.st.err,
                       allocs |-> ls.st.allocs]
    /\ UNCHANGED <<options, loaded, desc, call, flagsObj, wire, disc>>

NextString ==
    \/ \E str \in SeqsUpTo(StringUnits, MaxLen) : \E sl \in 0..MaxSlack : StoreString(str, sl)
    \/ \E str \in SeqsUpTo(StringUnits, MaxLen) : \E sl \in 0..MaxSlack : LowerString(str, sl)

SpecString == InitString /\ [][NextString]_vars

\* the byte length of the body of str in the encoding of the options
EncodedLength(str) ==
    IF options.encoding = "utf-8" THEN Len(utf8Encode(str)) ELSE 2 * Len(str)

\* C19: store and lower of a string allocate the body through one call of Memory.alloc,
\* with alignment 1 under utf-8 and alignment 2 under utf-16 and with the byte length of
\* the encoded body as the size.
C19_StringBodyAlloc ==
    stored.done =>
        stored.allocs = <<[alignment |-> IF options.encoding = "utf-8" THEN 1 ELSE 2,
                           size |-> EncodedLength(stored.value)]>>

(***************************************************************************)
(* Typed buffers.  The elements of a Float32Array or Float64Array are      *)
(* given by their bit patterns: storeIntoRange copies them unchanged.      *)
(***************************************************************************)
Float32ArrayType == TypeArrayType(float32, float32.alignment)
\* Float64ArrayType.storeIntoRange (line 1018) asks for float32.alignment
Float64ArrayType == TypeArrayType(float64, float32.alignment)

BufferMemBytes == 32    \* bytes of linear memory holding headers and buffer bodies
MaxBufferLen == 2       \* most elements of a typed buffer

TypedArrayTypes ==
    {Int8ArrayType, Int16ArrayType, Int32ArrayType, BigInt64ArrayType, Uint8ArrayType,
     Uint16ArrayType, Uint32ArrayType, BigUint64ArrayType, Float32ArrayType,
     Float64ArrayType}

InitBuffer ==
    /\ mem = [a \in 0..(BufferMemBytes - 1) |-> 0]
    /\ brk \in {0, 4}
    /\ options = [encoding |-> "utf-8", keepOption |-> FALSE]
    /\ stored = Idle
    /\ loaded = Idle
    /\ desc = Idle
    /\ call = Idle
    /\ flagsObj = Idle
    /\ wire = Idle
    /\ disc = Idle

\* what the generic list of the same element type allocates and returns for the same
\* elements from the same memory state
GenericList(t, value, st, sl) ==
    Strict(LAMBDA r : [allocs |-> r.st.allocs, header |-> <<r.ptr, r.n>>],
           ListType_storeIntoRange(st, ListType(t.elementType), value, options, sl))

\* ptr = T.alloc(memory); T.store(memory, ptr, value, options); header is the pair of
\* words the store has written at ptr
StoreBuffer(t, value, sl) ==
    /\ ~stored.done
    /\ \E a \in {alloc(MemState(mem, brk), t.alignment, t.size, sl)} :
         \E st \in {store(a.st, a.ptr, t, value, options, sl)} :
           /\ st.brk <= byteLength(mem)
           /\ mem' = st.mem
           /\ brk' = st.brk
           /\ stored' = [done |-> TRUE, op |-> "store", type |-> t, value |-> value,
                         err |-> st.err, allocs |-> Tail(st.allocs),
                         header |-> <<getLE(st.mem, a.ptr, 4), getLE(st.mem, a.ptr + 4, 4)>>,
                         list |-> GenericList(t, value, [a.st EXCEPT !.allocs = << >>], sl)]
    /\ UNCHANGED <<options, loaded, desc, call, flagsObj, wire, disc>>

\* T.lowerFlat(result, memory, value, options) into an empty result; header is the pair
\* of slots pushed
LowerBuffer(t, value, sl) ==
    /\ ~stored.done
    /\ \E ls \in {lowerFlat(Lowering(<< >>, MemState(mem, brk)), t, value, options, sl)} :
         /\ ls.st.brk <= byteLength(mem)
         /\ mem' = ls.st.mem
         /\ brk' = ls.st.brk
         /\ stored' = [done |-> TRUE, op |-> "lower", type |-> t, value |-> value,
                       err |-> ls.st.err, allocs |-> ls.st.allocs,
                       header |-> [i \in 1..Len(ls.out) |-> ls.out[i].v],
                       list |-> GenericList(t, value, MemState(mem, brk), sl)]
    /\ UNCHANGED <<options, loaded, desc, call, flagsObj, wire, disc>>

NextBuffer ==
    \/ \E t \in TypedArrayTypes : \E value \in SeqsUpTo({1, 127}, MaxBufferLen) :
          \E sl \in 0..MaxSlack : StoreBuffer(t, value, sl)
    \/ \E t \in TypedArrayTypes : \E value \in SeqsUpTo({1, 127}, MaxBufferLen) :
          \E sl \in 0..MaxSlack : LowerBuffer(t, value, sl)

SpecBuffer == InitBuffer /\ [][NextBuffer]_vars

\* C20: store and lower of a typed buffer allocate the body with the alignment of the
\* element type and a size of the element size times the length, and write or push the
\* (data_ptr, length) header the generic list of that element type has for the same
\* elements.
C20_TypedBufferWire ==
    stored.done =>
        /\ stored.allocs = <<[alignment |-> stored.type.elementType.alignment,
                              size |-> stored.type.elementType.size * Len(stored.value)]>>
        /\ stored.allocs = stored.list.allocs
        /\ stored.err = ""
        /\ stored.header = stored.list.header

\* C20 for the buffers other than Float64Array: the same statement for the nine other
\* typed buffers
C20_OtherBuffers ==
    (stored.done /\ stored.type = Float64ArrayType) \/ C20_TypedBufferWire

(***************************************************************************)
(* Ownership of loaded and lifted values.  A typed buffer comes back as    *)
(* new XArray(memory.buffer, data, length): the native value is the byte   *)
(* offset and length of a window on linear memory, and its elements are    *)
(* whatever the memory holds there when they are read.  Every other        *)
(* descriptor builds its value (a number, a string, an array, an object)   *)
(* from the bytes it reads.                                                *)
(***************************************************************************)
ViewMemBytes == 16     \* bytes of linear memory: header at 0, bodies from 8
MaxWrites == 2         \* most writes to linear memory after the value is returned

OwnedTypes ==
    {Int8ArrayType, Uint8ArrayType, Uint16ArrayType, Int32ArrayType, ListType(u8),
     ListType(u16), wstring}

IsView(t) == t.kind = "list" /\ t.typedArray

\* the value a load or lift hands out: r is the result of the method, (data, length)
\* the range it was read from
ReturnedValue(t, r, data, length) ==
    [done |-> TRUE, type |-> t, returned |-> r.val, view |-> IsView(t),
     byteOffset |-> data, length |-> length]

\* the elements of the native value as the caller reads them now
NativeValue ==
    IF loaded.view
    THEN TypeArrayType_loadFromRange(mem, loaded.type, loaded.byteOffset, loaded.length).val
    ELSE loaded.returned

InitOwned ==
    /\ \E n \in 1..2 : \E b \in {1, 200} :
         mem = [a \in 0..(ViewMemBytes - 1) |->
                   IF a = 3 THEN 8 ELSE IF a = 7 THEN n ELSE IF a >= 8 THEN b ELSE 0]
    /\ brk = 8
    /\ options = [encoding |-> "utf-8", keepOption |-> FALSE]
    /\ stored = Idle
    /\ loaded = Idle
    /\ desc = Idle
    /\ call = Idle
    /\ flagsObj = Idle
    /\ wire = Idle
    /\ disc = Idle

\* T.load(memory, 0, options)
LoadOwned(t) ==
    /\ ~loaded.done
    /\ \E r \in {load(mem, 0, t, options)} : \E h \in {loadHeader(mem, 0)} :
         /\ r.ok
         /\ loaded' = ReturnedValue(t, r, h[1], h[2])
    /\ UNCHANGED <<mem, brk, options, stored, desc, call, flagsObj, wire, disc>>

\* T.liftFlat(memory, [data, length].values(), options)
LiftOwned(t, data, length) ==
    /\ ~loaded.done
    /\ \E r \in {liftFlat(mem, t, <<Num(data), Num(length)>>, options)} :
         /\ r.ok
         /\ loaded' = ReturnedValue(t, r, data, length)
    /\ UNCHANGED <<mem, brk, options, stored, desc, call, flagsObj, wire, disc>>

\* a later T.store(memory, p, v, options) of an integer anywhere in memory
WriteAfter(t, p, v) ==
    /\ loaded.done
    /\ IF stored.done THEN stored.writes < MaxWrites ELSE TRUE
    /\ \E st \in {store(MemState(mem, brk), p, t, v, options, 0)} :
         /\ st.err = ""
         /\ mem' = st.mem
    /\ stored' = [done |-> TRUE, writes |-> IF stored.done THEN stored.writes + 1 ELSE 1]
    /\ UNCHANGED <<brk, options, loaded, desc, call, flagsObj, wire, disc>>

\* a later store of a buffer of the loaded type at the header the value was loaded
\* from, the allocator handing out the range the value was read from
StoreOver(value) ==
    /\ loaded.done
    /\ IF stored.done THEN stored.writes < MaxWrites ELSE TRUE
    /\ \E st \in {store(MemState(mem, loaded.byteOffset), 0, loaded.type, value, options, 0)} :
         /\ st.err = ""
         /\ mem' = st.mem
    /\ stored' = [done |-> TRUE, writes |-> IF stored.done THEN stored.writes + 1 ELSE 1]
    /\ UNCHANGED <<brk, options, loaded, desc, call, flagsObj, wire, disc>>

NextOwned ==
    \/ \E t \in OwnedTypes : LoadOwned(t)
    \/ \E t \in OwnedTypes : \E data \in {8, 12} : \E length \in 0..2 :
          LiftOwned(t, data, length)
    \/ \E t \in {u8, u16} : \E p \in {7, 8, 9, 12} : \E v \in {0, 7} :
          WriteAfter(t, p, v)
    \/ \E value \in SeqsUpTo({3, 9}, 2) : StoreOver(value)

SpecOwned == InitOwned /\ [][NextOwned]_vars

\* C21: the native value a load or lift returned stays what it was when it was
\* returned, whatever is written to linear memory afterwards; typed buffers included.
C21_ReturnedValueOwned ==
    loaded.done => NativeValue = loaded.returned

(***************************************************************************)
(* Host and Service factories.  A JavaScript object is a function from its *)
(* keys to its values; a native or wasm function is known by its identity *)
(* (Fn), and the arrow function a factory returns by the two values it     *)
(* closes over: the descriptor and the function it passes on to.           *)
(***************************************************************************)
Fn(id) == [fn |-> id]

\* object[key]
Get(object, key) == IF key \in DOMAIN object THEN object[key] ELSE Undefined

\* object[key] = value
Put(object, key, value) ==
    [k \in (DOMAIN object) \cup {key} |-> IF k = key THEN value ELSE object[k]]

\* new FunctionType(name, witName, params, returnType)
NamedFunctionType(name, witName, params, returnType) ==
    [name |-> name, witName |-> witName] @@ FunctionType(params, returnType)

\* NamespaceResourceType.addFunction (lines 2097-2099): functions is a Map keyed by the
\* function's name, here the sequence of its values in insertion order
addFunction(resource, func) ==
    LET fs == resource.functions IN
    [resource EXCEPT !.functions =
        IF \E i \in DOMAIN fs : fs[i].name = func.name
        THEN [i \in DOMAIN fs |-> IF fs[i].name = func.name THEN func ELSE fs[i]]
        ELSE Append(fs, func)]

RECURSIVE addFunctions(_, _)
addFunctions(resource, funcs) ==
    IF funcs = << >> THEN resource
    ELSE addFunctions(addFunction(resource, Head(funcs)), Tail(funcs))

\* new NamespaceResourceType(name, witName) followed by addFunction for each of funcs
NamespaceResourceType(name, witName, funcs) ==
    addFunctions([name |-> name, witName |-> witName, functions |-> << >>], funcs)

\* a lookup of the service function under the wire name
createHostFunction_wit(func, service) ==
    [func |-> func, serviceFunction |-> Get(service, func.witName)]
\* Host.createHostFunction (lines 2142-2147): serviceFunction = service[func.name]
createHostFunction(func, service) ==
    [func |-> func, serviceFunction |-> Get(service, func.name)]

RECURSIVE hostFunctions(_, _, _)
\* result[callable.witName] = createHostFunction(callable, service, context) for each
hostFunctions(result, funcs, service) ==
    IF funcs = << >> THEN result
    ELSE hostFunctions(Put(result, Head(funcs).witName, createHostFunction(Head(funcs), service)),
                       Tail(funcs), service)

RECURSIVE hostResources(_, _, _)
hostResources(result, resources, service) ==
    IF resources = << >> THEN result
    ELSE hostResources(hostFunctions(result, Head(resources).functions,
                                     Get(service, Head(resources).name)),
                       Tail(resources), service)

\* Host.create (lines 2128-2140)
Host_create(signatures, resources, service) ==
    hostResources(hostFunctions(<< >>, signatures, service), resources, service)

\* a lookup of the wasm function under the native name
createServiceFunction_name(func, wasm) ==
    [func |-> func, wasmFunction |-> Get(wasm, func.name)]
\* Service.createServiceFunction (lines 2171-2176): wasmFunction = wasm[func.witName]
createServiceFunction(func, wasm) ==
    [func |-> func, wasmFunction |-> Get(wasm, func.witName)]

RECURSIVE serviceFunctions(_, _, _)
\* result[callable.name] = createServiceFunction(callable, wasm, context) for each
serviceFunctions(result, funcs, wasm) ==
    IF funcs = << >> THEN result
    ELSE serviceFunctions(Put(result, Head(funcs).name, createServiceFunction(Head(funcs), wasm)),
                          Tail(funcs), wasm)

RECURSIVE serviceResources(_, _, _)
serviceResources(result, resources, wasm) ==
    IF resources = << >> THEN result
    ELSE serviceResources(Put(result, Head(resources).name,
                              serviceFunctions(<< >>, Head(resources).functions, wasm)),
                          Tail(resources), wasm)

\* Service.create (lines 2156-2169)
Service_create(signatures, resources, wasm) ==
    serviceResources(serviceFunctions(<< >>, signatures, wasm), resources, wasm)

(***************************************************************************)
(* An interface with two functions and two resources; the stream resource  *)
(* has a function whose native name is that of a function of the           *)
(* interface.  The service object implements every function and has one    *)
(* more; the wasm table exports every one under its wire name.             *)
(***************************************************************************)
FactoryMemBytes == 8     \* bytes of linear memory where the factories' calls are made
MaxSignatures == 2       \* most function descriptors and most resources given at once

read == NamedFunctionType("read", "read", <<u8>>, u8)
write == NamedFunctionType("write", "write-bytes", <<u8, u8>>, NoType)
stream_read == NamedFunctionType("read", "[method]stream.read", <<u8>>, u8)
stream_close == NamedFunctionType("close", "[method]stream.close", <<u8>>, NoType)
pollable_block == NamedFunctionType("block", "[method]pollable.block", <<u8>>, u8)

DistinctSeqs(S, n) ==
    {s \in SeqsUpTo(S, n) : \A i, j \in DOMAIN s : i # j => s[i] # s[j]}

SignatureLists == DistinctSeqs({read, write}, MaxSignatures)
Resources ==
    {NamespaceResourceType("stream", "stream", fs) :
        fs \in DistinctSeqs({stream_read, stream_close}, 2)}
      \cup {NamespaceResourceType("pollable", "pollable", <<pollable_block>>)}
ResourceLists ==
    {rs \in DistinctSeqs(Resources, MaxSignatures) :
        \A i, j \in DOMAIN rs : i # j => rs[i].name # rs[j].name}

service ==
    [read |-> Fn("service.read"), write |-> Fn("service.write"),
     close |-> Fn("service.close"),
     stream |-> [read |-> Fn("service.stream.read"), close |-> Fn("service.stream.close")],
     pollable |-> [block |-> Fn("service.pollable.block")]]

wasm ==
    LET all == {read, write, stream_read, stream_close, pollable_block} IN
    [k \in {f.witName : f \in all} \cup {"close"} |-> Fn("wasm." \o k)]

InitFactory ==
    /\ mem = [a \in 0..(FactoryMemBytes - 1) |-> 0]
    /\ brk = 0
    /\ options = [encoding |-> "utf-8", keepOption |-> FALSE]
    /\ stored = Idle
    /\ loaded = Idle
    /\ desc = Idle
    /\ call = Idle
    /\ flagsObj = Idle
    /\ wire = Idle
    /\ disc = Idle

\* Host.create(signatures, resources, service, context)
HostCreate(signatures, resources) ==
    /\ ~desc.done
    /\ desc' = [done |-> TRUE, factory |-> "Host", signatures |-> signatures,
                resources |-> resources, table |-> Host_create(signatures, resources, service)]
    /\ UNCHANGED <<mem, brk, options, stored, loaded, call, flagsObj, wire, disc>>

\* Service.create(signatures, resources, wasm, context)
ServiceCreate(signatures, resources) ==
    /\ ~desc.done
    /\ desc' = [done |-> TRUE, factory |-> "Service", signatures |-> signatures,
                resources |-> resources, table |-> Service_create(signatures, resources, wasm)]
    /\ UNCHANGED <<mem, brk, options, stored, loaded, call, flagsObj, wire, disc>>

\* the flat values and the native values a caller passes to a function of type f
FlatArguments(f) == [i \in 1..f.paramFlatTypes |-> Num(i)]
NativeArguments(f) == [i \in 1..Len(f.params) |-> i]

\* host[witName](...flat): the arrow function of createHostFunction (lines 2144-2146)
HostCall(witName) ==
    /\ desc.done /\ desc.factory = "Host"
    /\ ~call.done
    /\ witName \in DOMAIN desc.table
    /\ \E entry \in {desc.table[witName]} :
         \E nativeResult \in NativeValues(entry.func.returnType) :
            \E c \in {callService(entry.func, FlatArguments(entry.func), nativeResult,
                                  MemState(mem, brk), options, 0)} :
              /\ mem' = c.st.mem
              /\ brk' = c.st.brk
              /\ call' = [done |-> TRUE, op |-> "callService", key |-> witName,
                          func |-> entry.func, flat |-> FlatArguments(entry.func),
                          invoked |-> IF c.invoked THEN entry.serviceFunction ELSE Undefined,
                          passed |-> c.jParams,
                          ret |-> IF c.st.err # "" THEN Err(c.st.err) ELSE Ok(c.ret)]
    /\ UNCHANGED <<options, stored, loaded, desc, flagsObj, wire, disc>>

\* the arrow function of createServiceFunction (lines 2173-2175) found in object under
\* the native name
serviceCall(object, name, result) ==
    /\ name \in DOMAIN object
    /\ "func" \in DOMAIN object[name]
    /\ \E entry \in {object[name]} :
         \E w \in {wasmArguments(entry.func, NativeArguments(entry.func),
                                 MemState(mem, brk), options, 0)} :
           /\ mem' = w.st.mem
           /\ brk' = w.st.brk
           /\ call' = [done |-> TRUE, op |-> "callWasm", key |-> name,
                       func |-> entry.func, params |-> NativeArguments(entry.func),
                       invoked |-> IF w.st.err = "" THEN entry.wasmFunction ELSE Undefined,
                       passed |-> w.out,
                       ret |-> IF w.st.err # "" THEN Err(w.st.err)
                               ELSE wasmResult(entry.func, result, w.resultPtr, w.st.mem,
                                               options)]
    /\ UNCHANGED <<options, stored, loaded, desc, flagsObj, wire, disc>>

\* service[name](...params), or service[resource][name](...params)
ServiceCall(resource, name, result) ==
    /\ desc.done /\ desc.factory = "Service"
    /\ ~call.done
    /\ IF resource = ""
       THEN serviceCall(desc.table, name, result)
       ELSE /\ resource \in DOMAIN desc.table
            /\ "func" \notin DOMAIN desc.table[resource]
            /\ serviceCall(desc.table[resource], name, result)

NextFactory ==
    \/ \E signatures \in SignatureLists : \E resources \in ResourceLists :
          HostCreate(signatures, resources)
    \/ \E signatures \in SignatureLists : \E resources \in ResourceLists :
          ServiceCreate(signatures, resources)
    \/ \E witName \in DOMAIN wasm : HostCall(witName)
    \/ \E resource \in {"", "stream", "pollable"} : \E name \in DOMAIN service :
          \E result \in {Num(0), Num(7)} : ServiceCall(resource, name, result)

SpecFactory == InitFactory /\ [][NextFactory]_vars

\* every function descriptor given to a factory, with the object its native function is
\* a member of ("" for the service object itself, else the resource's name)
Callables ==
    {[func |-> desc.signatures[i], of |-> ""] : i \in DOMAIN desc.signatures}
      \cup UNION {{[func |-> desc.resources[i].functions[j], of |-> desc.resources[i].name] :
                      j \in DOMAIN desc.resources[i].functions} : i \in DOMAIN desc.resources}

\* C22: the table Host.create returns has one entry per function descriptor given and per
\* function of each resource given, under the descriptor's wire name; calling the entry
\* is callService of that descriptor on the flat arguments with the function found under
\* the descriptor's native name on the service object, or on the sub-object under the
\* resource's name for a function of a resource.
C22_HostTable ==
    /\ (desc.done /\ desc.factory = "Host") =>
          /\ DOMAIN desc.table = {c.func.witName : c \in Callables}
          /\ Cardinality(DOMAIN desc.table) = Cardinality(Callables)
          /\ \A c \in Callables :
                desc.table[c.func.witName] =
                    [func |-> c.func,
                     serviceFunction |-> IF c.of = "" THEN service[c.func.name]
                                         ELSE service[c.of][c.func.name]]
    /\ (call.done /\ call.op = "callService") =>
          \E c \in Callables :
             /\ c.func.witName = call.key
             /\ call.func = c.func
             /\ call.invoked \in {Undefined,
                                  IF c.of = "" THEN service[c.func.name]
                                  ELSE service[c.of][c.func.name]}
             /\ call.invoked # Undefined => call.passed = NativeArguments(c.func)

C22_Witness ==
    /\ desc.done /\ desc.factory = "Host"
    /\ Len(desc.signatures) = 2 /\ Len(desc.resources) = 2
    /\ call.done /\ call.key = "[method]stream.read"
    /\ call.invoked = Fn("service.stream.read")
    /\ call.ret = Ok(Num(255))

\* C23: the object Service.create returns has one function per function descriptor given
\* under its native name and one sub-object per resource under the resource's name, with
\* one function per function of the resource; calling a function is callWasm of its
\* descriptor on the native arguments with the entry of the wire table under the
\* descriptor's wire name.
C23_ServiceObject ==
    /\ (desc.done /\ desc.factory = "Service") =>
          /\ DOMAIN desc.table = {desc.signatures[i].name : i \in DOMAIN desc.signatures}
                                   \cup {desc.resources[i].name : i \in DOMAIN desc.resources}
          /\ \A i \in DOMAIN desc.signatures :
                desc.table[desc.signatures[i].name] =
                    [func |-> desc.signatures[i],
                     wasmFunction |-> wasm[desc.signatures[i].witName]]
          /\ \A i \in DOMAIN desc.resources :
                LET r == desc.resources[i] IN
                /\ DOMAIN desc.table[r.name] = {r.functions[j].name : j \in DOMAIN r.functions}
                /\ \A j \in DOMAIN r.functions :
                      desc.table[r.name][r.functions[j].name] =
                          [func |-> r.functions[j],
                           wasmFunction |-> wasm[r.functions[j].witName]]
    /\ (call.done /\ call.op = "callWasm") =>
          /\ call.invoked = wasm[call.func.witName]
          /\ call.func.name = call.key
          /\ call.passed = FlatArguments(call.func)
          /\ \E c \in Callables : c.func = call.func

C23_Witness ==
    /\ desc.done /\ desc.factory = "Service"
    /\ Len(desc.signatures) = 2 /\ Len(desc.resources) = 2
    /\ call.done /\ call.key = "read" /\ call.func = stream_read
    /\ call.invoked = Fn("wasm.[method]stream.read")
    /\ call.ret = Ok(Num(7))

(***************************************************************************)
(* The guest's side of callWasm: what the wasm function is called with.    *)
(* The guest is the environment; here it writes nothing and returns the    *)
(* flat value result.                                                      *)
(***************************************************************************)
WasmMemBytes == 128      \* bytes of linear memory for parameter and return buffers

Many(t, n) == [i \in 1..n |-> t]
WasmParamLists ==
    {<< >>, <<s8, u64>>, Many(u8, MAX_FLAT_PARAMS), Many(u8, MAX_FLAT_PARAMS + 1),
     Many(u32, 20), [i \in 1..(MAX_FLAT_PARAMS + 1) |-> IF i % 2 = 1 THEN u8 ELSE u32]}
WasmReturnTypes == {NoType, u8, u64, TupleType(<<u8, u8>>), wstring}
WasmFunctionTypes == {FunctionType(ps, r) : ps \in WasmParamLists, r \in WasmReturnTypes}
WasmArguments(ps) == {[i \in 1..Len(ps) |-> i], [i \in 1..Len(ps) |-> 100 + i]}

InitWasm ==
    /\ mem = [a \in 0..(WasmMemBytes - 1) |-> 0]
    /\ brk \in 0..3
    /\ options = [encoding |-> "utf-8", keepOption |-> FALSE]
    /\ stored = Idle
    /\ loaded = Idle
    /\ desc = Idle
    /\ call = Idle
    /\ flagsObj = Idle
    /\ wire = Idle
    /\ disc = Idle

\* func.callWasm(params, wasmFunction, memory, options): invocations is the list of the
\* argument lists wasmFunction has been called with
InvokeWasm(f, params, result, sl) ==
    /\ ~call.done
    /\ \E w \in {wasmArguments(f, params, MemState(mem, brk), options, sl)} :
         /\ w.st.brk <= byteLength(mem)
         /\ mem' = w.st.mem
         /\ brk' = w.st.brk
         /\ call' = [done |-> TRUE, op |-> "callWasm", func |-> f, params |-> params,
                     from |-> brk, err |-> w.st.err, allocs |-> w.st.allocs,
                     invocations |-> IF w.st.err = "" THEN <<w.out>> ELSE << >>,
                     ret |-> IF w.st.err # "" THEN Err(w.st.err)
                             ELSE wasmResult(f, result, w.resultPtr, w.st.mem, options)]
    /\ UNCHANGED <<options, stored, loaded, desc, flagsObj, wire, disc>>

NextWasm ==
    \E f \in WasmFunctionTypes : \E params \in WasmArguments(f.params) :
       \E result \in GuestReturns(f) : \E sl \in 0..MaxSlack :
          InvokeWasm(f, params, result, sl)

SpecWasm == InitWasm /\ [][NextWasm]_vars

\* the flat value of an integer parameter: a bigint for the 64-bit types, else a number
FlatOf(t, v) == IF t.size = 8 THEN Big(v) ELSE Num(v)

\* C24: callWasm calls the guest function once, with the flat values of the parameters
\* when there are at most 16 of them and otherwise with one pointer to a buffer allocated
\* with the parameter tuple's alignment and size that holds the stored tuple, followed by
\* one pointer to a newly allocated buffer of the return type's alignment and size
\* exactly when the return type has more than one flat value.
C24_GuestArguments ==
    (call.done /\ call.op = "callWasm" /\ call.err = "") =>
        LET f == call.func
            indirect == f.paramFlatTypes > 16
            out == f.returnFlatTypes > 1
            args == call.invocations[1]
            np == IF indirect THEN 1 ELSE f.paramFlatTypes
            paramAllocs == IF indirect
                           THEN <<[alignment |-> f.paramTupleType.alignment,
                                   size |-> f.paramTupleType.size]>>
                           ELSE << >>
            outAllocs == IF out
                         THEN <<[alignment |-> f.returnType.alignment,
                                 size |-> f.returnType.size]>>
                         ELSE << >>
        IN  /\ Len(call.invocations) = 1
            /\ Len(args) = np + (IF out THEN 1 ELSE 0)
            /\ call.allocs = paramAllocs \o outAllocs
            /\ IF indirect
               THEN /\ ~args[1].big
                    /\ args[1].v >= call.from
                    /\ args[1].v % f.paramTupleType.alignment = 0
                    /\ load(mem, args[1].v, f.paramTupleType, options) = Ok(call.params)
               ELSE \A i \in 1..np : args[i] = FlatOf(f.params[i], call.params[i])
            /\ out =>
                  /\ ~args[np + 1].big
                  /\ args[np + 1].v % f.returnType.alignment = 0
                  /\ args[np + 1].v >= call.from
                  /\ indirect => args[np + 1].v >= args[1].v + f.paramTupleType.size
            /\ (f.params = Many(u32, 20)) =>
                  call.allocs[1] = [alignment |-> 4, size |-> 80]

C24_Witness ==
    /\ call.done /\ call.op = "callWasm" /\ call.err = ""
    /\ call.func.params = Many(u32, 20)
    /\ call.func.returnType = wstring
    /\ call.from = 1
    /\ call.invocations = <<<<Num(4), Num(84)>>>>
    /\ call.allocs = <<[alignment |-> 4, size |-> 80], [alignment |-> 4, size |-> 8]>>

(***************************************************************************)
(* Range checks at the store boundary.                                     *)
(***************************************************************************)
\* EnumType.store (lines 1652-1654) and EnumType.lowerFlat (lines 1655-1657)
EnumType_store(st, p, t, value, opts, sl) ==
    store(st, p, t.discriminantType, value, opts, sl)
EnumType_lowerFlat(ls, t, value, opts, sl) ==
    lowerFlat(ls, t.discriminantType, value, opts, sl)

GuardMemBytes == 4      \* bytes of linear memory the values are stored into

GuardTypes == {u8, s8, u16, s16, EnumType(3).val, EnumType(300).val}
GuardValues == {0 - 129, 0 - 128, 0 - 1, 0, 2, 3, 127, 128, 255, 256, 299, 300, 65535, 65536}

\* the values of the descriptor's range: LOW_VALUE..HIGH_VALUE for the integers, the case
\* indices 0..cases-1 for an enum
InRange(t, v) ==
    IF t.kind = "enum" THEN v >= 0 /\ v < t.cases
    ELSE IF IsSigned(t.kind)
    THEN v >= 0 - Pow2((8 * t.size) - 1) /\ v <= Pow2((8 * t.size) - 1) - 1
    ELSE v >= 0 /\ v <= Pow2(8 * t.size) - 1

InitGuard ==
    /\ mem \in {[a \in 0..(GuardMemBytes - 1) |-> b] : b \in {0, 255}}
    /\ brk = 0
    /\ options = [encoding |-> "utf-8", keepOption |-> FALSE]
    /\ stored = Idle
    /\ loaded = Idle
    /\ desc = Idle
    /\ call = Idle
    /\ flagsObj = Idle
    /\ wire = Idle
    /\ disc = Idle

\* T.store(memory, p, v, options)
StoreValue(t, p, v) ==
    /\ ~stored.done
    /\ \E st \in {IF t.kind = "enum"
                  THEN EnumType_store(MemState(mem, brk), p, t, v, options, 0)
                  ELSE store(MemState(mem, brk), p, t, v, options, 0)} :
         /\ mem' = st.mem
         /\ stored' = [done |-> TRUE, op |-> "store", type |-> t, value |-> v, ptr |-> p,
                       err |-> st.err, before |-> mem, out |-> << >>]
    /\ UNCHANGED <<brk, options, loaded, desc, call, flagsObj, wire, disc>>

\* T.lowerFlat(result, memory, v, options) into an empty result
LowerValue(t, v) ==
    /\ ~stored.done
    /\ \E ls \in {IF t.kind = "enum"
                  THEN EnumType_lowerFlat(Lowering(<< >>, MemState(mem, brk)), t, v, options, 0)
                  ELSE lowerFlat(Lowering(<< >>, MemState(mem, brk)), t, v, options, 0)} :
         /\ mem' = ls.st.mem
         /\ stored' = [done |-> TRUE, op |-> "lower", type |-> t, value |-> v, ptr |-> 0,
                       err |-> ls.st.err, before |-> mem, out |-> ls.out]
    /\ UNCHANGED <<brk, options, loaded, desc, call, flagsObj, wire, disc>>

NextGuard ==
    \/ \E t \in GuardTypes : \E p \in {0, 2} : \E v \in GuardValues : StoreValue(t, p, v)
    \/ \E t \in GuardTypes : \E v \in GuardValues : LowerValue(t, v)

SpecGuard == InitGuard /\ [][NextGuard]_vars

\* C25: store and lower of a value outside the descriptor's range (an integer outside
\* LOW_VALUE..HIGH_VALUE, an enum value that is no case index) fail with an error, push
\* nothing and leave linear memory as it was.
C25_StoreRejectsOutOfRange ==
    (stored.done /\ ~InRange(stored.type, stored.value)) =>
        /\ stored.err # ""
        /\ stored.out = << >>
        /\ mem = stored.before

\* C25 for lower on the integer descriptors: lowerFlat of an integer outside
\* LOW_VALUE..HIGH_VALUE fails, pushes nothing and leaves linear memory as it was
C25_LowerRejectsIntegers ==
    (stored.done /\ stored.op = "lower" /\ stored.type.kind # "enum"
        /\ ~InRange(stored.type, stored.value)) =>
        /\ stored.err # ""
        /\ stored.out = << >>
        /\ mem = stored.before

(***************************************************************************)
(* The number of flat values callService is called with.                   *)
(***************************************************************************)
ArityMemBytes == 32     \* bytes of linear memory holding parameter and return buffers

ArityParamLists == {<< >>, <<u8>>, <<u8, u8>>, ManyU8}
ArityReturnTypes == {NoType, u8, s8, TupleType(<<u8, u8>>)}
ArityFunctionTypes ==
    {FunctionType(ps, r) : ps \in ArityParamLists, r \in ArityReturnTypes}

\* the number of flat values the descriptor takes: its flat parameters, or one pointer
\* when they are more than MAX_FLAT_PARAMS, and the out-pointer of an indirect return
ExpectedFlatCount(f) ==
    (IF f.paramFlatTypes <= MAX_FLAT_PARAMS THEN f.paramFlatTypes ELSE 1)
        + (IF f.returnFlatTypes > MAX_FLAT_RESULTS THEN 1 ELSE 0)

InitArity ==
    /\ mem = [a \in 0..(ArityMemBytes - 1) |-> 0]
    /\ brk = 0
    /\ options = [encoding |-> "utf-8", keepOption |-> FALSE]
    /\ stored = Idle
    /\ loaded = Idle
    /\ desc = Idle
    /\ call = Idle
    /\ flagsObj = Idle
    /\ wire = Idle
    /\ disc = Idle

\* the flat values of a call: n values, the last one a pointer to free memory
FlatValues(n, first) == [i \in 1..n |-> Num(IF i = n THEN ArityMemBytes - 8 ELSE first)]

\* func.callService(flat, serviceFunction, memory, options) with d flat values more than
\* the descriptor takes, the service function returning nativeResult
CallServiceWith(f, d, first, sl) ==
    /\ ~call.done
    /\ ExpectedFlatCount(f) + d >= 0
    /\ \E nativeResult \in NativeValues(f.returnType) :
         \E flat \in {FlatValues(ExpectedFlatCount(f) + d, first)} :
           \E c \in {callService(f, flat, nativeResult, MemState(mem, brk), options, sl)} :
              /\ mem' = c.st.mem
              /\ brk' = c.st.brk
              /\ call' = [done |-> TRUE, op |-> "callService", func |-> f,
                          wasmValues |-> flat, invoked |-> c.invoked,
                          nativeResult |-> nativeResult,
                          ret |-> IF c.st.err # "" THEN Err(c.st.err) ELSE Ok(c.ret)]
    /\ UNCHANGED <<options, stored, loaded, desc, flagsObj, wire, disc>>

NextArity ==
    \E f \in ArityFunctionTypes : \E d \in {0 - 1, 0, 1} :
       \E first \in {0, 1, 2} : \E sl \in 0..MaxSlack :
          CallServiceWith(f, d, first, sl)

SpecArity == InitArity /\ [][NextArity]_vars

\* C26: callService called with a number of flat values other than the one its descriptor
\* takes fails with an error and does not invoke the native implementation.
C26_ArityChecked ==
    (call.done /\ call.op = "callService"
        /\ Len(call.wasmValues) # ExpectedFlatCount(call.func)) =>
        /\ ~call.ret.ok
        /\ ~call.invoked

\* C26 for an indirect return and at most 16 flat parameters: the same statement for the
\* descriptors callService counts the flat values of
C26_IndirectReturnArity ==
    (call.done /\ call.op = "callService"
        /\ call.func.returnFlatTypes > MAX_FLAT_RESULTS
        /\ call.func.paramFlatTypes <= MAX_FLAT_PARAMS
        /\ Len(call.wasmValues) # ExpectedFlatCount(call.func)) =>
        /\ ~call.ret.ok
        /\ ~call.invoked

(***************************************************************************)
(* float32 on the flat stack.  A JavaScript number is NaN, an infinity, a  *)
(* finite double beyond the float32 range (Beyond), or a finite value in   *)
(* range, here an integer.  The flat value of an f32 is such a number.     *)
(***************************************************************************)
NaN == [cls |-> "NaN", v |-> 0]
Finite(v) == [cls |-> "finite", v |-> v]
Infinity(sign) == [cls |-> "Infinity", v |-> sign]
Beyond(sign) == [cls |-> "beyond", v |-> sign]

\* $float32.NAN (line 539): 0x7fc00000
float32_NAN == 2143289344

\* value < LOW_VALUE || value > HIGH_VALUE (lines 546 and 561); false for NaN
float32_outside(value) == value.cls \in {"Infinity", "beyond"}

\* $float32.liftFlat (lines 544-550)
float32_liftFlat(value) ==
    IF float32_outside(value) THEN Err("Invalid float32 value")
    ELSE IF value = Finite(float32_NAN) THEN Ok(NaN)
    ELSE Ok(value)

\* $float32.lowerFlat (lines 560-565)
float32_lowerFlat(result, value) ==
    IF float32_outside(value) THEN [ok |-> FALSE, out |-> result, err |-> "Invalid float32 value"]
    ELSE [ok |-> TRUE, err |-> "",
          out |-> Append(result, IF value = NaN THEN Finite(float32_NAN) ELSE value)]

FloatSmall == 12        \* the integers of magnitude up to FloatSmall are among the values
Pow2_22 == Pow2(22)
FloatValues ==
    {NaN} \cup {Infinity(s) : s \in {0 - 1, 1}} \cup {Beyond(s) : s \in {0 - 1, 1}}
      \cup {Finite(v) : v \in (0 - FloatSmall)..FloatSmall}
      \cup {Finite(s * k * Pow2_22) : s \in {0 - 1, 1}, k \in 508..511}
      \cup {Finite(float32_NAN + d) : d \in {0 - 128, 128}}

InitFloat ==
    /\ mem = [a \in 0..0 |-> 0]
    /\ brk = 0
    /\ options = [encoding |-> "utf-8", keepOption |-> FALSE]
    /\ stored = Idle
    /\ loaded = Idle
    /\ desc = Idle
    /\ call = Idle
    /\ flagsObj = Idle
    /\ wire = Idle
    /\ disc = Idle

\* float32.lowerFlat(result, memory, value) into an empty result
LowerFloat(value) ==
    /\ ~wire.done
    /\ ~loaded.done
    /\ \E r \in {float32_lowerFlat(<< >>, value)} :
         wire' = [done |-> TRUE, value |-> value, ok |-> r.ok, out |-> r.out]
    /\ UNCHANGED <<mem, brk, options, stored, loaded, desc, call, flagsObj, disc>>

\* float32.liftFlat(memory, values) on the flat value lowerFlat has pushed
LiftLowerFloat ==
    /\ wire.done /\ wire.ok
    /\ ~loaded.done
    /\ loaded' = [done |-> TRUE, from |-> wire.out[1], res |-> float32_liftFlat(wire.out[1])]
    /\ UNCHANGED <<mem, brk, options, stored, desc, call, flagsObj, wire, disc>>

\* float32.liftFlat(memory, values) on a flat value of the guest's
LiftFloat(value) ==
    /\ ~wire.done
    /\ ~loaded.done
    /\ loaded' = [done |-> TRUE, from |-> value, res |-> float32_liftFlat(value)]
    /\ UNCHANGED <<mem, brk, options, stored, desc, call, flagsObj, wire, disc>>

NextFloat ==
    \/ \E value \in FloatValues : LowerFloat(value)
    \/ LiftLowerFloat
    \/ \E value \in FloatValues : LiftFloat(value)

SpecFloat == InitFloat /\ [][NextFloat]_vars

\* C27: float32.lowerFlat followed by float32.liftFlat gives back every finite value of
\* the range and gives NaN for NaN; liftFlat returns NaN only for a flat value that is
\* NaN; a value outside the range fails in lowerFlat and in liftFlat.
C27_Float32RoundTrip ==
    /\ wire.done => (wire.ok <=> ~float32_outside(wire.value))
    /\ (wire.done /\ loaded.done) => loaded.res = Ok(wire.value)
    /\ loaded.done => (loaded.res.ok <=> ~float32_outside(loaded.from))
    /\ (loaded.done /\ loaded.res = Ok(NaN)) => loaded.from = NaN

\* C27 away from the number 0x7fc00000: the round trip of every finite value of the
\* range other than 2143289344, and the range checks
C27_OtherFloats ==
    /\ wire.done => (wire.ok <=> ~float32_outside(wire.value))
    /\ (wire.done /\ loaded.done /\ wire.value # Finite(float32_NAN)) =>
          loaded.res = Ok(wire.value)
    /\ loaded.done => (loaded.res.ok <=> ~float32_outside(loaded.from))
    /\ (loaded.done /\ loaded.res = Ok(NaN)) => loaded.from \in {NaN, Finite(float32_NAN)}

(***************************************************************************)
(* The bytes a record or tuple store writes, measured against the size of  *)
(* the descriptor.                                                         *)
(***************************************************************************)
TupleMemBytes == 96     \* bytes of linear memory the tuples are stored into
MaxTupleFields == 3     \* most fields of a stored tuple

TupleFieldTypes == {u8, u16, u32, u64}
TupleTypes == {TupleType(types) : types \in SeqsUpTo(TupleFieldTypes, MaxTupleFields)}
RecordTypes == {RecordType(types) : types \in SeqsUpTo(TupleFieldTypes, MaxTupleFields)}
IndirectParamLists ==
    {ManyU8, Many(u32, 20), [i \in 1..(MAX_FLAT_PARAMS + 1) |-> IF i % 2 = 1 THEN u8 ELSE u32],
     [i \in 1..(MAX_FLAT_PARAMS + 1) |-> IF i = 2 THEN u64 ELSE u8]}

InitTuple ==
    /\ mem = [a \in 0..(TupleMemBytes - 1) |-> 0]
    /\ brk \in {0, 1, 8}
    /\ options = [encoding |-> "utf-8", keepOption |-> FALSE]
    /\ stored = Idle
    /\ loaded = Idle
    /\ desc = Idle
    /\ call = Idle
    /\ flagsObj = Idle
    /\ wire = Idle
    /\ disc = Idle

\* ptr = T.alloc(memory); T.store(memory, ptr, values, options) for the tuple or record
\* descriptor T
StoreTuple(t, sl) ==
    /\ ~stored.done
    /\ \E values \in {[i \in 1..Len(t.fields) |-> i]} :
       \E a \in {alloc(MemState(mem, brk), t.alignment, t.size, sl)} :
         \E st \in {store(a.st, a.ptr, t, values, options, sl)} :
           \E ones \in {store(MemState([x \in DOMAIN mem |-> 255], a.st.brk), a.ptr, t,
                              values, options, sl)} :
             /\ st.err = ""
             /\ mem' = st.mem
             /\ brk' = st.brk
             /\ stored' = [done |-> TRUE, op |-> "store", type |-> t, ptr |-> a.ptr,
                           value |-> values, written |-> Written(st, ones)]
    /\ UNCHANGED <<options, loaded, desc, call, flagsObj, wire, disc>>

\* lowerParamValues(values, memory, options, undefined) of a function with the parameter
\* types ps, more than MAX_FLAT_PARAMS of them
StoreParams(ps, sl) ==
    /\ ~stored.done
    /\ \E f \in {FunctionType(ps, NoType)} : \E values \in {[i \in 1..Len(ps) |-> i]} :
         \E ls \in {lowerParamValues(f, values, MemState(mem, brk), options, sl)} :
           \E ones \in {lowerParamValues(f, values, MemState([x \in DOMAIN mem |-> 255], brk),
                                         options, sl)} :
             /\ ls.st.err = ""
             /\ mem' = ls.st.mem
             /\ brk' = ls.st.brk
             /\ stored' = [done |-> TRUE, op |-> "lowerParamValues", type |-> f.paramTupleType,
                           ptr |-> ls.out[1].v, value |-> values,
                           written |-> Written(ls.st, ones.st)]
    /\ UNCHANGED <<options, loaded, desc, call, flagsObj, wire, disc>>

NextTuple ==
    \/ \E t \in TupleTypes : \E sl \in 0..MaxSlack : StoreTuple(t, sl)
    \/ \E t \in RecordTypes : \E sl \in 0..MaxSlack : StoreTuple(t, sl)
    \/ \E ps \in IndirectParamLists : \E sl \in 0..MaxSlack : StoreParams(ps, sl)

SpecTuple == InitTuple /\ [][NextTuple]_vars

\* C28: the range of every field of a record or tuple descriptor lies within the
\* descriptor's size, and a store at p writes only addresses of [p, p + size); so does
\* the store of the parameter tuple into the buffer of paramTupleType.size bytes that
\* lowerParamValues allocates.
C28_StoreWithinSize ==
    stored.done =>
        /\ \A i \in DOMAIN stored.type.fields :
              /\ stored.type.fields[i].offset >= 0
              /\ stored.type.fields[i].offset + stored.type.fields[i].type.size
                     <= stored.type.size
        /\ \A a \in stored.written : a >= stored.ptr /\ a < stored.ptr + stored.type.size

\* C28 for the descriptors whose layout has no padding (the final offset of the layout is
\* the sum of the field sizes): the same statement
C28_UnpaddedWithinSize ==
    (stored.done /\ FinalOffset(stored.type.fields) = stored.type.size) =>
        /\ \A i \in DOMAIN stored.type.fields :
              stored.type.fields[i].offset + stored.type.fields[i].type.size
                  <= stored.type.size
        /\ \A a \in stored.written : a >= stored.ptr /\ a < stored.ptr + stored.type.size

(***************************************************************************)
(* The flat types a case has on its own against the joined flat types.     *)
(***************************************************************************)
\* the (have, want) pairs VariantType.lowerFlat converts (lines 1528-1536)
WideningPairs ==
    {<<"f32", "i32">>, <<"i32", "i64">>, <<"f32", "i64">>, <<"f64", "i64">>}

\* C29: in every variant descriptor, at every slot position of every case with a
\* payload, the case's own flat type is the joined flat type of that position or forms
\* with it one of the four pairs lowerFlat converts, and the wantFlatTypes recorded on
\* the case are the flat types of its payload type.
C29_CaseSlotsWiden ==
    (desc.done /\ desc.type.kind = "variant") =>
        \A c \in 1..Len(desc.type.cases) :
           LET case == desc.type.cases[c]
               own == IF desc.types[c] = NoType THEN << >> ELSE desc.types[c].flatTypes
           IN  /\ case.wantFlatTypes = own
               /\ case.index = c - 1
               /\ Len(own) <= Len(desc.type.flatTypes) - 1
               /\ \A i \in 1..Len(own) :
                     \/ own[i] = desc.type.flatTypes[1 + i]
                     \/ <<own[i], desc.type.flatTypes[1 + i]>> \in WideningPairs

\* C29 (witness): a variant whose first slot is f32 for one case, i32 for another and
\* f64 for a third, joined to i64
C29_Witness ==
    /\ desc.done
    /\ desc.type.kind = "variant"
    /\ desc.types = <<float32, u8, float64>>
    /\ desc.type.flatTypes = <<"i32", "i64">>
    /\ desc.type.cases[1].wantFlatTypes = <<"f32">>

(***************************************************************************)
(* One setter call on a loaded or lifted flags value of more than 32       *)
(* names, then lowerFlat.                                                  *)
(***************************************************************************)
BitCounts == {33, 64, 65}
BitIndices == {0, 30, 31, 32, 62, 63, 64}

\* flags.<name of flag i> = true, once; before keeps the value as it was
SetBit(i) ==
    /\ flagsObj.done
    /\ ~wire.done
    /\ flagsObj.res.ok
    /\ flagsObj.type.type.storage = "Array"
    /\ "set" \notin DOMAIN flagsObj
    /\ i < flagsObj.type.nr
    /\ flagsObj' = [set |-> i, before |-> flagsObj.res.val]
                      @@ [flagsObj EXCEPT !.res.val = setArrayFlag(@, i, TRUE)]
    /\ UNCHANGED <<mem, brk, options, stored, loaded, desc, call, wire, disc>>

NextBits ==
    \/ \E nr \in BitCounts : LoadWide(nr)
    \/ \E nr \in BitCounts : \E w \in {0, 100} : LiftWide(nr, w)
    \/ \E i \in BitIndices : SetBit(i)
    \/ LowerWide

SpecBits == InitWide /\ [][NextBits]_vars

\* after the setter of flag i on a loaded or lifted value, lowerFlat succeeds with
\* ceil(n / 32) numbers that are not negative, bit i mod 32 of word i div 32 being 1
\* and every other bit as before
SetThenLowered ==
    LET n == flagsObj.type.nr
        i == flagsObj.set
    IN  /\ wire.err = ""
        /\ Len(wire.out) = CeilDiv32(n)
        /\ \A w \in 1..Len(wire.out) :
              /\ ~wire.out[w].big
              /\ wire.out[w].v >= 0
              /\ \A b \in 0..31 :
                    masked(wire.out[w].v, mask(b)) =
                        IF w = (i \div 32) + 1 /\ b = i % 32 THEN TRUE
                        ELSE masked(flagsObj.before._bits[w].v, mask(b))

\* C30: for a flags descriptor of more than 32 names and every flag i, setting flag i on
\* a loaded or lifted value and lowering it succeeds and gives ceil(n / 32) unsigned
\* 32-bit words in which bit i mod 32 of word i div 32 is 1 and every other bit is as it
\* was.
C30_SetFlagLowered ==
    (wire.done /\ wire.op = "lower" /\ "set" \in DOMAIN flagsObj) => SetThenLowered

\* C30 for the flags other than the last of a word (i mod 32 # 31): the same statement
C30_LowerBits ==
    (wire.done /\ wire.op = "lower" /\ "set" \in DOMAIN flagsObj
        /\ flagsObj.set % 32 # 31) => SetThenLowered

====
